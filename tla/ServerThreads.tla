---------------------------- MODULE ServerThreads ----------------------------
(***************************************************************************)
(* Server mode: a thread per connection calls Execute, and no lock is held *)
(* around a command (main.cpp).  Here are buy_ticket and refund_ticket on  *)
(* one segment of one train and day, cut between the accesses to the       *)
(* storages; nobody waits in the queue.  What an access does under a latch *)
(* is one step, and so are the count and the entry of a history and the    *)
(* reads at the start of a refund, which the code latches one by one: the  *)
(* code has more interleavings than these, and has all of these.           *)
(***************************************************************************)
EXTENDS Integers, SequencesExt

CONSTANTS
  Connections,
  Users,       \* all of them online
  SeatNum,     \* the seats of the train
  TicketNums,  \* -n
  PageSize,    \* max_element_in_page
  MaxOrders    \* bound of the model: elements ever written

ASSUME SeatAssumption == SeatNum \in Nat /\ TicketNums \subseteq Nat \ {0}
ASSUME OrdersAssumption == MaxOrders \in Nat /\ PageSize \in Nat \ {0, 1}

VARIABLES
  seats,     \* seats_data_storage: the free seats
  data,      \* data_storage: index -> [num, status]
  pages,     \* its pages; the indices of page p begin at p * PageSize
  blank,     \* first_blank_element_pair_id; 0 when no page has a blank
  history,   \* order_history_indexer: user -> indices, oldest first
  cmd,       \* connection -> the locals of the command it executes
  up         \* the process is alive

vars == <<seats, data, pages, blank, history, cmd, up>>

Success == 1
Refunded == 2

Nothing == [at |-> "idle"]

Init ==
  /\ seats = SeatNum
  /\ data = [i \in {} |-> 0]
  /\ pages = 0
  /\ blank = 0
  /\ history = [u \in Users |-> <<>>]
  /\ cmd = [c \in Connections |-> Nothing]
  /\ up = TRUE

Idle(c) == up /\ cmd[c].at = "idle"
At(c, step) == up /\ cmd[c].at = step

\* The next storage access of c's command.
Goto(c, step) == cmd' = [cmd EXCEPT ![c].at = step]

-----------------------------------------------------------------------------
(* buy_ticket *)

BuyGetSeats(c, u, n) ==
  /\ Idle(c)
  /\ n <= seats
  /\ cmd' = [cmd EXCEPT ![c] = [at |-> "getBlank", user |-> u, num |-> n, seat |-> seats]]
  /\ UNCHANGED <<seats, data, pages, blank, history, up>>

\* write: the blank element is looked up before the page is latched...
WriteGetBlank(c) ==
  /\ At(c, "getBlank")
  /\ Cardinality(DOMAIN data) < MaxOrders
  /\ cmd' = [cmd EXCEPT ![c] = [at |-> "putElement", user |-> @.user, num |-> @.num,
                                seat |-> @.seat, idx |-> blank]]
  /\ UNCHANGED <<seats, data, pages, blank, history, up>>

\* A bug: the element after the last one of the page is a blank one, too.
WritePutElementPastPage(c) ==
  LET new == cmd[c].idx = 0
      i == IF new THEN (pages + 1) * PageSize ELSE cmd[c].idx
  IN  /\ At(c, "putElement")
      /\ data' = [x \in DOMAIN data \cup {i} |->
                    IF x = i THEN [num |-> cmd[c].num, status |-> Success] ELSE data[x]]
      /\ pages' = IF new THEN pages + 1 ELSE pages
      /\ blank' = i + 1
      /\ cmd' = [cmd EXCEPT ![c] = [@ EXCEPT !.at = "fileOrder", !.idx = i]]
      /\ UNCHANGED <<seats, history, up>>

\* ...and taken from the list of blanks under the latch, or it is the first
\* of a new page.
WritePutElement(c) ==
  LET new == cmd[c].idx = 0
      i == IF new THEN (pages + 1) * PageSize ELSE cmd[c].idx
  IN  /\ At(c, "putElement")
      /\ data' = [x \in DOMAIN data \cup {i} |->
                    IF x = i THEN [num |-> cmd[c].num, status |-> Success] ELSE data[x]]
      /\ pages' = IF new THEN pages + 1 ELSE pages
      /\ blank' = IF (i + 1) % PageSize = 0 THEN 0 ELSE i + 1
      /\ cmd' = [cmd EXCEPT ![c] = [@ EXCEPT !.at = "fileOrder", !.idx = i]]
      /\ UNCHANGED <<seats, history, up>>

\* A bug: the order is filed nowhere.
FileOrderNowhere(c) ==
  /\ At(c, "fileOrder")
  /\ Goto(c, "putSeats")
  /\ UNCHANGED <<seats, data, pages, blank, history, up>>

FileOrder(c) ==
  /\ At(c, "fileOrder")
  /\ history' = [history EXCEPT ![cmd[c].user] = Append(@, cmd[c].idx)]
  /\ Goto(c, "putSeats")
  /\ UNCHANGED <<seats, data, pages, blank, up>>

BuyPutSeats(c) ==
  /\ At(c, "putSeats")
  /\ seats' = cmd[c].seat - cmd[c].num
  /\ cmd' = [cmd EXCEPT ![c] = Nothing]
  /\ UNCHANGED <<data, pages, blank, history, up>>

-----------------------------------------------------------------------------
(* refund_ticket *)

\* A bug: an order that has been refunded is refunded again.
RefundAnyOrder(c, u, n) ==
  /\ Idle(c)
  /\ n \in 1 .. Len(history[u])
  /\ LET i == history[u][n]
     IN  cmd' = [cmd EXCEPT ![c] = [at |-> "refundOrder", idx |-> i, num |-> data[i].num]]
  /\ UNCHANGED <<seats, data, pages, blank, history, up>>

RefundGetOrder(c, u, n) ==
  /\ Idle(c)
  /\ n \in 1 .. Len(history[u])
  /\ LET i == history[u][n]
     IN  /\ data[i].status # Refunded
         /\ cmd' = [cmd EXCEPT ![c] = [at |-> "refundOrder", idx |-> i, num |-> data[i].num]]
  /\ UNCHANGED <<seats, data, pages, blank, history, up>>

RefundPutOrder(c) ==
  /\ At(c, "refundOrder")
  /\ data' = [data EXCEPT ![cmd[c].idx] = [num |-> cmd[c].num, status |-> Refunded]]
  /\ Goto(c, "getSeats")
  /\ UNCHANGED <<seats, pages, blank, history, up>>

RefundGetSeats(c) ==
  /\ At(c, "getSeats")
  /\ cmd' = [cmd EXCEPT ![c] = [at |-> "giveBack", idx |-> @.idx, num |-> @.num,
                                seat |-> seats + @.num]]
  /\ UNCHANGED <<seats, data, pages, blank, history, up>>

RefundPutSeats(c) ==
  /\ At(c, "giveBack")
  /\ seats' = cmd[c].seat
  /\ Goto(c, "serveQueue")
  /\ UNCHANGED <<data, pages, blank, history, up>>

\* The queue is empty, and the same seats are stored once more.
RefundPutSeatsAgain(c) ==
  /\ At(c, "serveQueue")
  /\ seats' = cmd[c].seat
  /\ cmd' = [cmd EXCEPT ![c] = Nothing]
  /\ UNCHANGED <<data, pages, blank, history, up>>

-----------------------------------------------------------------------------

\* exit: the engine is destroyed and the process ends, whatever the other
\* connections are at; their clients get no answer.
Exit(c) ==
  /\ Idle(c)
  /\ up' = FALSE
  /\ UNCHANGED <<seats, data, pages, blank, history, cmd>>

Restart ==
  /\ ~up
  /\ up' = TRUE
  /\ cmd' = [c \in Connections |-> Nothing]
  /\ UNCHANGED <<seats, data, pages, blank, history>>

\* One access of the command that c executes, or the first of its next one.
Access(c) ==
  \/ \E u \in Users, n \in TicketNums : BuyGetSeats(c, u, n)
  \/ WriteGetBlank(c) \/ WritePutElement(c) \/ FileOrder(c) \/ BuyPutSeats(c)
  \/ \E u \in Users, n \in 1 .. MaxOrders : RefundGetOrder(c, u, n)
  \/ RefundPutOrder(c) \/ RefundGetSeats(c) \/ RefundPutSeats(c) \/ RefundPutSeatsAgain(c)

Next ==
  \/ \E c \in Connections : Access(c) \/ Exit(c)
  \/ Restart

Spec == Init /\ [][Next]_vars

\* The server while nobody sends exit.
ServeNext == \E c \in Connections : Access(c)
ServeSpec == Init /\ [][ServeNext]_vars

-----------------------------------------------------------------------------
(* Properties *)

Quiet == \A c \in Connections : cmd[c].at = "idle"

\* The tickets of the orders that stand.
Sold ==
  UNION {{i} \X (1 .. data[i].num) : i \in {x \in DOMAIN data : data[x].status = Success}}

\* With no command under way, the free seats and the tickets sold make up the
\* seats of the train, as they would with a lock around every command.
SeatsAddUp == Quiet => seats + Cardinality(Sold) = SeatNum

\* Every order has an element of its own: no element is filed twice, and with
\* no command under way every element is filed.
OrdersKeptApart ==
  /\ \A u, v \in Users : \A m \in 1 .. Len(history[u]), n \in 1 .. Len(history[v]) :
       history[u][m] = history[v][n] => u = v /\ m = n
  /\ Quiet => DOMAIN data = UNION {ToSet(history[u]) : u \in Users}

OrderType == [num : TicketNums, status : {Success, Refunded}]

Locals ==
  [at : {"getBlank"}, user : Users, num : TicketNums, seat : Nat]
  \cup [at : {"putElement", "fileOrder", "putSeats"},
       user : Users, num : TicketNums, seat : Nat, idx : Nat]
  \cup [at : {"refundOrder", "getSeats"}, idx : Nat, num : TicketNums]
  \cup [at : {"giveBack", "serveQueue"}, idx : Nat, num : TicketNums, seat : Nat]

\* The types of the variables.
TypeOK ==
  /\ seats \in Nat
  /\ data \in [DOMAIN data -> OrderType]
  /\ pages \in Nat /\ blank \in Nat
  /\ history \in [Users -> Seq(DOMAIN data)]
  /\ cmd \in [Connections -> Locals \cup {Nothing}]
  /\ up \in BOOLEAN

\* The elements in use lie before the end of the last page, and before the
\* blank one that is next.
ElementsSound ==
  /\ \A i \in DOMAIN data : i \in Nat \ {0} /\ i < (pages + 1) * PageSize
  /\ blank # 0 => blank < (pages + 1) * PageSize /\ \A i \in DOMAIN data : i < blank

\* The seats that c's command has sold and not yet taken, or freed and not yet
\* given back.
Due(c) ==
  IF cmd[c].at \in {"fileOrder", "putSeats"} THEN cmd[c].num
  ELSE IF cmd[c].at \in {"getSeats", "giveBack"} THEN -cmd[c].num ELSE 0

\* What the command of c has read is still so.
LocalsCurrent(c) ==
  /\ cmd[c].at \in {"getBlank", "putElement", "fileOrder", "putSeats"} =>
       cmd[c].seat = seats /\ cmd[c].num <= seats
  /\ cmd[c].at = "putElement" => cmd[c].idx = blank
  /\ cmd[c].at = "refundOrder" =>
       cmd[c].idx \in DOMAIN data /\ data[cmd[c].idx] = [num |-> cmd[c].num, status |-> Success]
  /\ cmd[c].at = "giveBack" => cmd[c].seat = seats + cmd[c].num
  /\ cmd[c].at = "serveQueue" => cmd[c].seat = seats

\* The element that c has written and not filed.
Unfiled(c) == IF cmd[c].at = "fileOrder" THEN {cmd[c].idx} ELSE {}

Filed == UNION {ToSet(history[u]) : u \in Users}

\* The commands of c are executed as if they were alone: what holds between two
\* commands holds at every access, up to what the command has not yet done.
AloneInv(c) ==
  /\ TypeOK
  /\ ElementsSound
  /\ LocalsCurrent(c)
  /\ \A u, v \in Users : \A m \in 1 .. Len(history[u]), n \in 1 .. Len(history[v]) :
       history[u][m] = history[v][n] => u = v /\ m = n
  /\ Filed \cap Unfiled(c) = {} /\ DOMAIN data = Filed \cup Unfiled(c)
  /\ IsFiniteSet(Sold) /\ seats + Cardinality(Sold) = SeatNum + Due(c)
  /\ up \/ cmd[c].at = "idle"

\* The inductive invariant of a server with a single connection.
OneByOne == \A c \in Connections : Connections = {c} => AloneInv(c)
=============================================================================
