------------------------------- MODULE Queries -------------------------------
(***************************************************************************)
(* The stop register and the commands that read it: query_ticket,          *)
(* query_transfer, query_train and the search of buy_ticket                *)
(* (stop_register.hpp, transaction_system.cpp, train_system.cpp).          *)
(*                                                                         *)
(* A date is the number of a day, a time stamp a number of minutes.  Stops *)
(* count from 1, the code's from 0.  Trains are compared by hash in the    *)
(* register and by name in the answers.  A query changes nothing: it is an *)
(* operator on the state that the commands leave.                          *)
(***************************************************************************)
EXTENDS Integers, Sequences, FiniteSets, SequencesExt, FiniteSetsExt

CONSTANTS
  Catalogue,  \* the trains that add_train has stored, unreleased
  Dates,      \* dates asked for
  MaxSales    \* bound of the model: tickets sold

Day == 1440
June_1st_2024 == 152

\* Values of the bit fields of MinimalTrainRecord: 8 bits for a day, 14 for a time.
DayValues == 256
OffsetValues == 16384

Stops(t) == 1 .. Len(t.stations)
Stations == UNION {Range(t.stations) : t \in Catalogue}

ASSUME CatalogueAssumption ==
  \A t \in Catalogue :
    /\ t.stations \in Seq(Stations) /\ Len(t.stations) >= 2 /\ IsInjective(t.stations)
    /\ t.id \in Nat /\ t.hash \in Nat /\ t.seatNum \in Nat
    /\ t.startTime \in 0 .. Day - 1
    /\ \A i \in 1 .. Len(t.stations) - 1 : t.travelTime[i] \in Nat /\ t.price[i] \in Nat
    /\ \A i \in 2 .. Len(t.stations) - 1 : t.stopoverTime[i] \in Nat
    /\ {t.saleDate_beg, t.saleDate_end} \subseteq June_1st_2024 .. June_1st_2024 + DayValues - 1

\* No two names have one hash.
ASSUME HashAssumption ==
  \A t, u \in Catalogue : t.hash = u.hash <=> t.id = u.id

\* query_transfer adds up a stopover at the last stop, too, and takes the days
\* of sale for an interval (management_system.md:67).
ASSUME TransferAssumption ==
  \A t \in Catalogue :
    /\ t.saleDate_beg <= t.saleDate_end
    /\ \A i \in Stops(t) : t.stopoverTime[i] \in Int

ASSUME DatesAssumption == Dates \subseteq Nat

VARIABLES
  released,  \* the released trains of core_train_data_storage
  register,  \* bpt_indexer of the stop register, key and value as one record
  seats      \* seats_data_storage: <<train, day>> -> seats of each segment

vars == <<released, register, seats>>

Arrive == 0
Leave == 1

SaleDays(t) == t.saleDate_beg .. t.saleDate_end
TrainOf(h) == CHOOSE t \in released : t.hash = h

Init ==
  /\ released = {}
  /\ register = {}
  /\ seats = [k \in {} |-> <<>>]

-----------------------------------------------------------------------------
(* release_train *)

OffsetsWaiting(t, Wait(_)) ==
  LET at[i \in Stops(t)] ==
        IF i = 1 THEN [arrive |-> -1, leave |-> 0]
        ELSE LET a == at[i - 1].leave + t.travelTime[i - 1]
             IN [arrive |-> a, leave |-> IF i = Len(t.stations) THEN -1 ELSE a + Wait(i)]
  IN at

\* A bug: the train does not wait at its stops.
OffsetsWithoutStopovers(t) == OffsetsWaiting(t, LAMBDA i : 0)

\* Minutes from the start of the train to its arrival at and departure from
\* each stop; -1 where it does not arrive or leave.
Offsets(t) == OffsetsWaiting(t, LAMBDA i : t.stopoverTime[i])

\* A train is under way for 72 hours at most (management_system.md:76).
ASSUME OffsetsAssumption ==
  \A t \in Catalogue : \A i \in Stops(t) :
    Offsets(t)[i].arrive < OffsetValues /\ Offsets(t)[i].leave < OffsetValues

StopRecord(t, i, type, offset) ==
  [station |-> t.stations[i], train |-> t.hash, type |-> type,
   startTime |-> t.startTime, stop |-> i,
   beg |-> June_1st_2024 + ((t.saleDate_beg - June_1st_2024) % DayValues),
   end |-> June_1st_2024 + ((t.saleDate_end - June_1st_2024) % DayValues),
   offset |-> offset % OffsetValues]

AddStopInfo(t, i) ==
  LET at == Offsets(t)[i]
  IN {StopRecord(t, i, Arrive, a) : a \in {at.arrive} \ {-1}}
     \cup {StopRecord(t, i, Leave, l) : l \in {at.leave} \ {-1}}

Release(t) ==
  /\ \A r \in released : r.id # t.id
  /\ released' = released \cup {t}
  /\ register' = register \cup UNION {AddStopInfo(t, i) : i \in Stops(t)}
  /\ LET days == {<<t.hash, d>> : d \in 0 .. t.saleDate_end - t.saleDate_beg}
     IN  seats' = [k \in days \cup DOMAIN seats |->
                     IF k \in days THEN [j \in 1 .. Len(t.stations) - 1 |-> t.seatNum] ELSE seats[k]]

-----------------------------------------------------------------------------
(* The stop register *)

\* The members of a finite set in the order of Less.
InOrder(S, Less(_, _)) ==
  CHOOSE s \in [1 .. Cardinality(S) -> S] : \A i, j \in DOMAIN s : i < j => Less(s[i], s[j])

ByTrain(S) == InOrder(S, LAMBDA a, b : a.train < b.train)

\* What the iterator meets from lower_bound({s, 0}) to the next station,
\* without the records of the other type.
Records(s, type) ==
  ByTrain({r \in register : r.station = s /\ r.type = type})

\* Midnights between the start of the train and the stop.
DeltaDays(r) == (r.startTime + r.offset) \div Day

OnSale(r, date) == date - DeltaDays(r) \in r.beg .. r.end

DirectTrainInfo(from, to, date) ==
  LET start == date - DeltaDays(from)
  IN [train |-> from.train, actual_start_date |-> start, day |-> start - from.beg,
      leave |-> start * Day + from.startTime + from.offset,
      arrive |-> start * Day + from.startTime + to.offset,
      from |-> from.stop, to |-> to.stop]

\* Two iterators, one over the departures from f and one over the arrivals
\* at g; the second starts each search where the last one left it.
MergeBy(Past(_, _), date, f, g) ==
  LET departures == Records(f, Leave)
      arrivals == Records(g, Arrive)
      found[n \in 0 .. Len(departures)] ==
        IF n = 0 THEN [it_to |-> 1, res |-> <<>>]
        ELSE LET acc == found[n - 1]
                 r == departures[n]
                 ahead == {q \in acc.it_to .. Len(arrivals) : arrivals[q].train >= r.train}
                 it_to == IF ahead = {} THEN Len(arrivals) + 1 ELSE Min(ahead)
                 met == ahead # {} /\ arrivals[it_to].train = r.train
                 entry == DirectTrainInfo(r, arrivals[it_to], date)
             IN IF ~OnSale(r, date) THEN acc
                ELSE [it_to |-> Past(met, it_to),
                      res |-> IF met /\ entry.leave < entry.arrive
                              THEN Append(acc.res, entry) ELSE acc.res]
  IN found[Len(departures)].res

\* A bug: the arrival of a later train is passed, too.
MergePastLaterTrain(date, f, g) ==
  LET Past(met, q) == q + 1 IN MergeBy(Past, date, f, g)

QueryDirectTrains(date, f, g) ==
  LET Past(met, q) == IF met THEN q + 1 ELSE q IN MergeBy(Past, date, f, g)

\* The departures of train h at f with its arrivals at g, sold on date.
SoldTogether(h, date, f, g) ==
  {p \in {r \in register : r.station = f /\ r.train = h /\ r.type = Leave}
         \X {r \in register : r.station = g /\ r.train = h /\ r.type = Arrive} :
     OnSale(p[1], date)}

\* A bug: the order of the two stops is not looked at.
RequestBackwards(h, date, f, g) ==
  {DirectTrainInfo(p[1], p[2], date) : p \in SoldTogether(h, date, f, g)}

\* At most one answer; none means no success.
RequestSingleTrain(h, date, f, g) ==
  {DirectTrainInfo(p[1], p[2], date) :
     p \in {q \in SoldTogether(h, date, f, g) : q[1].offset <= q[2].offset}}

FetchTrainLeavingFrom(date, f) ==
  LET r == ByTrain({x \in register : x.station = f /\ x.type = Leave /\ OnSale(x, date)})
  IN [i \in DOMAIN r |-> r[i].train]

FetchTrainArriavingAt(g) ==
  LET r == Records(g, Arrive) IN [i \in DOMAIN r |-> r[i].train]

-----------------------------------------------------------------------------
(* query_ticket and buy_ticket *)

\* f[from] + ... + f[to], 0 if there is nothing to add.
Sum(f, from, to) ==
  LET upTo[k \in from - 1 .. to] == IF k = from - 1 THEN 0 ELSE upTo[k - 1] + f[k]
  IN IF from <= to THEN upTo[to] ELSE 0

\* The minimum starts from the seats at the boarding stop.
SeatsLeft(h, day, i, j) == Min({seats[<<h, day>>][k] : k \in {i} \cup i .. j - 1})

WithPriceAndSeats(e) ==
  [train |-> e.train, actual_start_date |-> e.actual_start_date, day |-> e.day,
   leave |-> e.leave, arrive |-> e.arrive, from |-> e.from, to |-> e.to,
   price |-> Sum(TrainOf(e.train).price, e.from, e.to - 1),
   seats |-> SeatsLeft(e.train, e.day, e.from, e.to)]

\* Lexicographic order of tuples of numbers.
Before(a, b) ==
  \E i \in DOMAIN a : a[i] < b[i] /\ \A j \in 1 .. i - 1 : a[j] = b[j]

QueryTicket(date, f, g, sortByTime) ==
  LET rows == {WithPriceAndSeats(e) : e \in Range(QueryDirectTrains(date, f, g))}
      key(e) == <<IF sortByTime THEN e.arrive - e.leave ELSE e.price, TrainOf(e.train).id>>
  IN InOrder(rows, LAMBDA a, b : Before(key(a), key(b)))

\* The journey and the seats that buy_ticket finds.
BuyTicketOffer(h, date, f, g) ==
  {WithPriceAndSeats(e) : e \in RequestSingleTrain(h, date, f, g)}

\* A purchase; orders, histories and the waiting queue are TicketSystem's.
BuyTicket(t, date, f, g) ==
  \E e \in BuyTicketOffer(t.hash, date, f, g) :
    /\ t \in released
    /\ 1 <= e.seats
    /\ seats' = [seats EXCEPT ![<<e.train, e.day>>] =
                   [k \in DOMAIN @ |-> IF k \in e.from .. e.to - 1 THEN @[k] - 1 ELSE @[k]]]
    /\ UNCHANGED <<released, register>>

-----------------------------------------------------------------------------
(* query_transfer *)

\* Offsets as CheckTransfer adds them up; the last stop has a departure, too.
TransferOffsets(t) ==
  LET at[i \in Stops(t)] ==
        IF i = 1 THEN [arrive |-> 0, leave |-> 0]
        ELSE LET a == at[i - 1].leave + t.travelTime[i - 1]
             IN [arrive |-> a, leave |-> a + t.stopoverTime[i]]
  IN at

\* A bug: the division rounds down.
DaysToWaitRoundedDown(leave, arrived) ==
  IF leave < arrived THEN (arrived - leave) \div Day ELSE 0

\* tran2_day_delta: the first day on which the second train leaves in time.
DaysToWait(leave, arrived) ==
  IF leave < arrived THEN (arrived - leave + Day - 1) \div Day ELSE 0

LegWithSeatsOf(day, t, start, i, j) ==
  LET at == TransferOffsets(t)
  IN [train |-> t.hash, actual_start_date |-> start, day |-> start - t.saleDate_beg,
      leave |-> start * Day + t.startTime + at[i].leave,
      arrive |-> start * Day + t.startTime + at[j].arrive,
      from |-> i, to |-> j,
      price |-> Sum(t.price, 1, j - 1) - Sum(t.price, 1, i - 1),
      seats |-> SeatsLeft(t.hash, day, i, j)]

\* A bug: the seats are those of the first day of the sale.
LegOfFirstDay(t, start, i, j) == LegWithSeatsOf(0, t, start, i, j)

\* One leg of a transfer: train t, started on a day of its sale, from stop i to j.
Leg(t, start, i, j) == LegWithSeatsOf(start - t.saleDate_beg, t, start, i, j)

NoTransfer == [status |-> "none"]
Mistake == [status |-> "thrown"]
Transfer(first, second) == [status |-> "found", first |-> first, second |-> second]

TransferKey(s, sortByTime) ==
  LET time == s.second.arrive - s.first.leave
      price == s.first.price + s.second.price
      name1 == TrainOf(s.first.train).id
      name2 == TrainOf(s.second.train).id
  IN IF sortByTime THEN <<time, price, name1, name2>> ELSE <<price, time, name1, name2>>

\* Change from stop x of train t1, boarded at b, to t2 at its stop i, for its
\* stop d.  The set is empty where the loop continues.
Candidate(t1, t2, date, b, i, x, d) ==
  LET start == date - (t1.startTime + TransferOffsets(t1)[b].leave) \div Day
      first == Leg(t1, start, b, x)
      leave == t2.startTime + TransferOffsets(t2)[i].leave
      wait == DaysToWait(t2.saleDate_beg * Day + leave, first.arrive)
  IN IF start \notin SaleDays(t1) THEN {Mistake}
     ELSE IF first.arrive > t2.saleDate_end * Day + leave THEN {}
     ELSE {Transfer(first, Leg(t2, t2.saleDate_beg + wait, i, d))}

\* The new solution replaces the old one unless the old one is better.
Choose(best, s, sortByTime) ==
  IF /\ best.status # "none" /\ s.status # "thrown"
     /\ Before(TransferKey(best, sortByTime), TransferKey(s, sortByTime))
  THEN best ELSE s

\* What the loop finds where t2 stops at i: one change at most.
Changes(t1, t2, date, b, i, d) ==
  UNION {Candidate(t1, t2, date, b, i, x, d) :
           x \in {k \in b + 1 .. Len(t1.stations) : t1.stations[k] = t2.stations[i]}}

Improved(best, found, sortByTime) ==
  IF best.status = "thrown" \/ found = {} THEN best
  ELSE Choose(best, CHOOSE s \in found : TRUE, sortByTime)

\* Stops of the second train before the destination, the last one first.
CheckTransfer(best, t1, t2, date, f, g, sortByTime) ==
  LET b == CHOOSE k \in Stops(t1) : t1.stations[k] = f
      d == CHOOSE k \in Stops(t2) : t2.stations[k] = g
      after[k \in 0 .. d - 1] ==
        IF k = 0 THEN best ELSE Improved(after[k - 1], Changes(t1, t2, date, b, d - k, d), sortByTime)
  IN IF t1.hash = t2.hash THEN best ELSE after[d - 1]

\* Every train that leaves f with every train that arrives at g.
QueryTransfer(date, f, g, sortByTime) ==
  LET trains1 == FetchTrainLeavingFrom(date, f)
      trains2 == FetchTrainArriavingAt(g)
      outer[n \in 0 .. Len(trains1)] ==
        IF n = 0 THEN NoTransfer
        ELSE LET inner[m \in 0 .. Len(trains2)] ==
                   IF m = 0 THEN outer[n - 1]
                   ELSE CheckTransfer(inner[m - 1], TrainOf(trains1[n]), TrainOf(trains2[m]),
                                      date, f, g, sortByTime)
             IN inner[Len(trains2)]
  IN outer[Len(trains1)]

-----------------------------------------------------------------------------
(* query_train: the time of every stop for the train that starts on date,  *)
(* the price up to it and the seats from it.                               *)

QueryTrain(t, date) ==
  LET n == Len(t.stations)
      row[i \in Stops(t)] ==
        IF i = 1
        THEN [arrive |-> -1, leave |-> date * Day + t.startTime, price |-> 0]
        ELSE LET cur_time == row[i - 1].leave + t.travelTime[i - 1]
             IN [arrive |-> cur_time,
                 leave |-> IF i = n THEN -1 ELSE cur_time + t.stopoverTime[i],
                 price |-> row[i - 1].price + t.price[i - 1]]
  IN IF date \notin SaleDays(t) THEN {}
     ELSE {[stops |-> row, seats |-> seats[<<t.hash, date - t.saleDate_beg>>]]}

-----------------------------------------------------------------------------
Sold == MapThenSumSet(LAMBDA k : MapThenSumSet(LAMBDA j : TrainOf(k[1]).seatNum - seats[k][j],
                                                DOMAIN seats[k]),
                      DOMAIN seats)

Next ==
  \/ \E t \in Catalogue : Release(t)
  \/ /\ Sold < MaxSales
     /\ \E t \in released, date \in Dates, f, g \in Stations : BuyTicket(t, date, f, g)

Spec == Init /\ [][Next]_vars

-----------------------------------------------------------------------------
(* Correctness.  The reference: the journeys the timetable has.            *)

\* Minutes from the start of t to its arrival at stop i.
Ride(t, i) == Sum(t.travelTime, 1, i - 1) + Sum(t.stopoverTime, 2, i - 1)
LeavesAfter(t, i) == IF i = 1 THEN 0 ELSE Ride(t, i) + t.stopoverTime[i]

\* Train t on day s from stop i to stop j.
Journey(t, s, i, j) ==
  [train |-> t.hash, day |-> s - t.saleDate_beg, from |-> i, to |-> j,
   leave |-> s * Day + t.startTime + LeavesAfter(t, i),
   arrive |-> s * Day + t.startTime + Ride(t, j),
   price |-> Sum(t.price, i, j - 1)]

\* Every run of every released train from f to g.
Journeys(f, g) ==
  UNION {UNION {{Journey(t, s, i, j) :
                   s \in SaleDays(t), i \in {k \in 1 .. j - 1 : t.stations[k] = f}} :
                j \in {k \in Stops(t) : t.stations[k] = g}} :
         t \in released}

JourneysOn(date, f, g) == {e \in Journeys(f, g) : e.leave \div Day = date}

Plain(e) == [train |-> e.train, day |-> e.day, from |-> e.from, to |-> e.to,
             leave |-> e.leave, arrive |-> e.arrive, price |-> e.price]

\* A ride of no time: the train has a travel time of 0 there.
TakesTime(e) == e.leave < e.arrive

Questions == {q \in Dates \X Stations \X Stations : q[2] # q[3]}

\* query_ticket lists every journey that leaves f on the date asked for, goes on
\* to g and takes time, each once and no other, although the two iterators of
\* QueryDirectTrains are only ever moved forward.
DirectTrainsExact ==
  \A q \in Questions :
    LET rows == QueryTicket(q[1], q[2], q[3], TRUE)
        journeys == {e \in JourneysOn(q[1], q[2], q[3]) : TakesTime(e)}
    IN /\ Len(rows) = Len(QueryDirectTrains(q[1], q[2], q[3]))
       /\ {Plain(e) : e \in Range(rows)} = journeys
       /\ Len(rows) = Cardinality(journeys)

\* All that buy_ticket sells from f to g on a date.
SoldOn(q) == UNION {BuyTicketOffer(t.hash, q[1], q[2], q[3]) : t \in released}

\* What query_ticket lists is what buy_ticket sells: the same train, day,
\* price and seats; nothing is sold that arrives before it leaves, and nothing
\* that takes time but is not listed.  The two commands search the register in
\* different ways, and compare the offsets of the two stops differently.
ListedIsSold ==
  \A q \in Questions :
    /\ \A e \in SoldOn(q) : e.leave <= e.arrive
    /\ Range(QueryTicket(q[1], q[2], q[3], FALSE)) = {e \in SoldOn(q) : TakesTime(e)}

\* query_transfer finds a change of trains exactly when there is one, it is
\* one the timetable has, and no other is better in the order asked for.
\* CheckTransfer never meets a train that FetchTrainLeavingFrom should not
\* have returned.
TransferIsBest ==
  \A q \in Questions, sortByTime \in BOOLEAN :
    LET answer == QueryTransfer(q[1], q[2], q[3], sortByTime)
        legal == UNION {{Transfer(c[1], c[2]) : c \in
                   {p \in JourneysOn(q[1], q[2], x) \X Journeys(x, q[3]) :
                      p[1].train # p[2].train /\ p[1].arrive <= p[2].leave}} : x \in Stations}
    IN IF legal = {} THEN answer = NoTransfer
       ELSE /\ answer.status = "found"
            /\ Transfer(Plain(answer.first), Plain(answer.second)) \in legal
            /\ \A s \in legal :
                 ~Before(TransferKey(s, sortByTime), TransferKey(answer, sortByTime))

\* The legs of a transfer that take time are tickets that query_ticket lists for
\* the day on which the leg leaves, with the same seats.
LegsAreTickets ==
  \A q \in Questions :
    LET answer == QueryTransfer(q[1], q[2], q[3], TRUE)
        change == TrainOf(answer.first.train).stations[answer.first.to]
    IN answer.status = "found" =>
         /\ TakesTime(answer.first) =>
              answer.first \in Range(QueryTicket(q[1], q[2], change, TRUE))
         /\ TakesTime(answer.second) =>
              answer.second \in Range(QueryTicket(answer.second.leave \div Day, change, q[3], TRUE))

\* A ticket agrees with what query_train shows of the train on the day it
\* starts: times, price and seats, across midnights.
TicketsMatchTimetable ==
  \A q \in Questions : \A e \in Range(QueryTicket(q[1], q[2], q[3], TRUE)) :
    \E row \in QueryTrain(TrainOf(e.train), e.actual_start_date) :
      /\ row.stops[e.from].leave = e.leave
      /\ row.stops[e.to].arrive = e.arrive
      /\ row.stops[e.to].price - row.stops[e.from].price = e.price
      /\ \A k \in e.from .. e.to - 1 : e.seats <= row.seats[k]
=============================================================================
