------------------------ MODULE ServerThreads_proofs ------------------------
(***************************************************************************)
(* Proof that a server with a single connection keeps its seats and orders *)
(* in balance, for any number of users, seats, orders and elements a page. *)
(***************************************************************************)
EXTENDS ServerThreads, FiniteSetTheorems, TLAPS

USE SeatAssumption, OrdersAssumption

-----------------------------------------------------------------------------
(* Counting tickets *)

\* The tickets of the successful ones of the orders D.
Tickets(D) == UNION {{i} \X (1 .. D[i].num) : i \in {x \in DOMAIN D : D[x].status = Success}}

\* What a ticket is.
LEMMA TicketOf ==
  ASSUME NEW D, NEW z
  PROVE  z \in Tickets(D) <=>
           \E i \in DOMAIN D : D[i].status = Success /\ z \in {i} \X (1 .. D[i].num)
BY DEF Tickets

\* E has the successful orders of D, and order x on top.
OneMore(D, E, x) ==
  /\ x \in DOMAIN E /\ E[x].status = Success /\ E[x].num \in Nat
  /\ x \in DOMAIN D => D[x].status # Success
  /\ \A i \in DOMAIN D : D[i].status = Success => i \in DOMAIN E /\ E[i] = D[i]
  /\ \A i \in DOMAIN E \ {x} : E[i].status = Success => i \in DOMAIN D /\ E[i] = D[i]

\* The tickets of one more order are counted one by one.
LEMMA OneMoreTickets ==
  ASSUME NEW D, NEW E, NEW x, OneMore(D, E, x)
  PROVE  /\ IsFiniteSet(Tickets(D)) <=> IsFiniteSet(Tickets(E))
         /\ IsFiniteSet(Tickets(D)) =>
              Cardinality(Tickets(E)) = Cardinality(Tickets(D)) + E[x].num
<1>. DEFINE S == Tickets(D)
            T == Tickets(E)
            n == E[x].num
            X == {x} \X (1 .. n)
            f == [m \in 1 .. n |-> <<x, m>>]
<1>1. ASSUME NEW z \in T PROVE z \in S \cup X
  <2>1. PICK i \in DOMAIN E : E[i].status = Success /\ z \in {i} \X (1 .. E[i].num)
    BY <1>1, TicketOf
  <2>2. CASE i = x
    BY <2>1, <2>2
  <2>3. CASE i # x
    BY <2>1, <2>3, TicketOf DEF OneMore
  <2>. QED
    BY <2>2, <2>3
<1>2. ASSUME NEW z \in S PROVE z \in T /\ z \notin X
  <2>1. PICK i \in DOMAIN D : D[i].status = Success /\ z \in {i} \X (1 .. D[i].num)
    BY <1>2, TicketOf
  <2>2. i # x /\ i \in DOMAIN E /\ E[i] = D[i]
    BY <2>1 DEF OneMore
  <2>. QED
    BY <2>1, <2>2, TicketOf
<1>3. ASSUME NEW z \in X PROVE z \in T
  BY <1>3, TicketOf DEF OneMore
<1>4. T = S \cup X /\ S \cap X = {}
  BY <1>1, <1>2, <1>3
<1>5. n \in Nat
  BY DEF OneMore
<1>6. IsFiniteSet(X) /\ Cardinality(X) = n
  <2>1. IsFiniteSet(1 .. n) /\ Cardinality(1 .. n) = n
    BY <1>5, FS_Interval
  <2>2. f \in [1 .. n -> X] /\ \A m \in 1 .. n : f[m] = <<x, m>>
    OBVIOUS
  <2>3. \A z \in X : \E m \in 1 .. n : z = <<x, m>>
    OBVIOUS
  <2>. HIDE DEF f, X, n
  <2>4. \A l, m \in 1 .. n : f[l] = f[m] => l = m
    BY <2>2
  <2>5. f \in Bijection(1 .. n, X)
    BY <2>2, <2>3, <2>4 DEF Bijection, Injection, Surjection, IsInjective
  <2>. QED
    BY <2>1, <2>5, FS_Bijection DEF ExistsBijection
<1>. HIDE DEF S, T, X, n
<1>7. IsFiniteSet(T) => IsFiniteSet(S)
  BY <1>4, FS_Subset
<1>8. ASSUME IsFiniteSet(S) PROVE IsFiniteSet(T) /\ Cardinality(T) = Cardinality(S) + n
  <2>1. Cardinality(S \cap X) = 0
    BY <1>4, FS_EmptySet
  <2>2. IsFiniteSet(T) /\ Cardinality(T) = Cardinality(S) + n - 0
    BY <1>4, <1>6, <1>8, <2>1, FS_Union
  <2>3. Cardinality(S) \in Nat
    BY <1>8, FS_CardinalityType
  <2>. QED
    BY <1>5, <2>2, <2>3
<1>. QED
  BY <1>7, <1>8 DEF S, T, n

-----------------------------------------------------------------------------
(* A command on its own *)

\* The locals of a command at each of its accesses.
LEMMA LocalsAt ==
  ASSUME TypeOK, NEW c \in Connections
  PROVE  /\ cmd[c].at = "getBlank" =>
              cmd[c] \in [at : {"getBlank"}, user : Users, num : TicketNums, seat : Nat]
         /\ cmd[c].at \in {"putElement", "fileOrder", "putSeats"} =>
              cmd[c] \in [at : {"putElement", "fileOrder", "putSeats"},
                          user : Users, num : TicketNums, seat : Nat, idx : Nat]
         /\ cmd[c].at \in {"refundOrder", "getSeats"} =>
              cmd[c] \in [at : {"refundOrder", "getSeats"}, idx : Nat, num : TicketNums]
         /\ cmd[c].at \in {"giveBack", "serveQueue"} =>
              cmd[c] \in [at : {"giveBack", "serveQueue"}, idx : Nat, num : TicketNums, seat : Nat]
         /\ cmd[c].at = "idle" => cmd[c] = Nothing
<1>1. cmd[c] \in Locals \cup {Nothing}
  BY DEF TypeOK
<1>. QED
  BY <1>1 DEF Locals, Nothing

\* What a command has sold or freed is a number of tickets.
LEMMA DueIs ==
  ASSUME TypeOK, NEW c \in Connections
  PROVE  Due(c) \in Int
<1>1. TicketNums \subseteq Nat
  OBVIOUS
<1>2. cmd[c].at \in {"fileOrder", "putSeats", "getSeats", "giveBack"} => cmd[c].num \in TicketNums
  BY LocalsAt
<1>. QED
  <2>1. cmd[c].at \in {"fileOrder", "putSeats"} => Due(c) = cmd[c].num /\ cmd[c].num \in Nat
    BY <1>1, <1>2 DEF Due
  <2>2. cmd[c].at \in {"getSeats", "giveBack"} => Due(c) = -cmd[c].num /\ cmd[c].num \in Nat
    BY <1>1, <1>2 DEF Due
  <2>3. cmd[c].at \notin {"fileOrder", "putSeats", "getSeats", "giveBack"} => Due(c) = 0
    BY DEF Due
  <2>. QED
    BY <2>1, <2>2, <2>3

\* The tickets sold are those of the successful orders.
LEMMA SoldIs == Sold = Tickets(data) /\ Sold' = Tickets(data')
BY DEF Sold, Tickets

\* A list of some of the elements is a list of elements when there are more.
LEMMA MoreElements ==
  ASSUME NEW S, NEW T, S \subseteq T, NEW s \in Seq(S)
  PROVE  s \in Seq(T)
OBVIOUS

\* No two entries of the histories are the same element.
FiledOnce ==
  \A u, v \in Users : \A m \in 1 .. Len(history[u]), n \in 1 .. Len(history[v]) :
    history[u][m] = history[v][n] => u = v /\ m = n

\* An access that touches no order and no history, and stores what it owes.
LEMMA SeatsStep ==
  ASSUME NEW c, Connections = {c}, AloneInv(c), up, UNCHANGED <<data, pages, blank, history, up>>,
         NEW r \in Locals \cup {Nothing}, cmd' = [cmd EXCEPT ![c] = r],
         LocalsCurrent(c)', Unfiled(c)' = Unfiled(c),
         NEW d \in Int, seats' \in Nat, seats' = seats + d, Due(c)' = Due(c) + d
  PROVE  AloneInv(c)'
<1>1. TypeOK
  BY DEF AloneInv
<1>2. TypeOK'
  BY <1>1 DEF TypeOK
<1>3. ElementsSound' /\ Filed' = Filed /\ Sold' = Sold
  BY DEF AloneInv, ElementsSound, Filed, Sold
<1>4. seats' + Cardinality(Sold) = SeatNum + Due(c)'
  <2>1. Cardinality(Sold) \in Nat /\ seats \in Nat /\ SeatNum \in Nat /\ Due(c) \in Int
    BY <1>1, FS_CardinalityType, DueIs DEF AloneInv, TypeOK
  <2>2. seats + Cardinality(Sold) = SeatNum + Due(c)
    BY DEF AloneInv
  <2>. QED
    BY <2>1, <2>2
<1>. QED
  BY <1>2, <1>3, <1>4 DEF AloneInv

\* An access that changes nothing but the locals of the command.
LEMMA LocalsStep ==
  ASSUME NEW c, Connections = {c}, AloneInv(c), up,
         UNCHANGED <<seats, data, pages, blank, history, up>>,
         NEW r \in Locals \cup {Nothing}, cmd' = [cmd EXCEPT ![c] = r],
         LocalsCurrent(c)', Unfiled(c)' = Unfiled(c), Due(c)' = Due(c)
  PROVE  AloneInv(c)'
<1>1. PICK d \in Int : d = 0
  OBVIOUS
<1>2. seats \in Nat /\ Due(c) \in Int
  BY DueIs DEF AloneInv, TypeOK
<1>3. seats' \in Nat /\ seats' = seats + d /\ Due(c)' = Due(c) + d
  BY <1>1, <1>2
<1>4. UNCHANGED <<data, pages, blank, history, up>>
  OBVIOUS
<1>. QED
  BY <1>3, <1>4, SeatsStep

\* The command of the connection is now r.
LEMMA CmdIs ==
  ASSUME NEW c, Connections = {c}, TypeOK, NEW r, cmd' = [cmd EXCEPT ![c] = r]
  PROVE  cmd'[c] = r
BY DEF TypeOK

\* The first access of buy_ticket.
LEMMA BuyGetSeatsStep ==
  ASSUME NEW c, Connections = {c}, AloneInv(c),
         NEW u \in Users, NEW n \in TicketNums, BuyGetSeats(c, u, n)
  PROVE  AloneInv(c)'
<1>1. TypeOK /\ seats \in Nat
  BY DEF AloneInv, TypeOK
<1>2. PICK r : r = [at |-> "getBlank", user |-> u, num |-> n, seat |-> seats]
  OBVIOUS
<1>3. /\ up /\ cmd[c].at = "idle" /\ n <= seats
      /\ cmd' = [cmd EXCEPT ![c] = r] /\ UNCHANGED <<seats, data, pages, blank, history, up>>
  BY <1>2 DEF BuyGetSeats, Idle
<1>4. r \in Locals
  BY <1>1, <1>2 DEF Locals
<1>5. cmd'[c] = r
  BY <1>1, <1>3, CmdIs
<1>6. LocalsCurrent(c)' /\ Unfiled(c)' = Unfiled(c) /\ Due(c)' = Due(c)
  BY <1>2, <1>3, <1>5 DEF LocalsCurrent, Unfiled, Due
<1>. QED
  BY <1>3, <1>4, <1>6, LocalsStep

\* The look-up of the blank element.
LEMMA WriteGetBlankStep ==
  ASSUME NEW c, Connections = {c}, AloneInv(c), WriteGetBlank(c)
  PROVE  AloneInv(c)'
<1>1. TypeOK /\ seats \in Nat /\ blank \in Nat
  BY DEF AloneInv, TypeOK
<1>2. PICK r : r = [at |-> "putElement", user |-> cmd[c].user, num |-> cmd[c].num,
                    seat |-> cmd[c].seat, idx |-> blank]
  OBVIOUS
<1>3. /\ up /\ cmd[c].at = "getBlank"
      /\ cmd' = [cmd EXCEPT ![c] = r] /\ UNCHANGED <<seats, data, pages, blank, history, up>>
  BY <1>1, <1>2 DEF WriteGetBlank, At, TypeOK
<1>4. r \in Locals
  BY <1>1, <1>2, <1>3, LocalsAt DEF Locals
<1>5. cmd'[c] = r
  BY <1>1, <1>3, CmdIs
<1>6. cmd[c].seat = seats /\ cmd[c].num <= seats
  BY <1>3 DEF AloneInv, LocalsCurrent
<1>7. LocalsCurrent(c)' /\ Unfiled(c)' = Unfiled(c) /\ Due(c)' = Due(c)
  BY <1>2, <1>3, <1>5, <1>6 DEF LocalsCurrent, Unfiled, Due
<1>. QED
  BY <1>3, <1>4, <1>7, LocalsStep

\* The last access of buy_ticket.
LEMMA BuyPutSeatsStep ==
  ASSUME NEW c, Connections = {c}, AloneInv(c), BuyPutSeats(c)
  PROVE  AloneInv(c)'
<1>1. TypeOK /\ seats \in Nat /\ TicketNums \subseteq Nat
  BY DEF AloneInv, TypeOK
<1>2. /\ up /\ cmd[c].at = "putSeats" /\ seats' = cmd[c].seat - cmd[c].num
      /\ cmd' = [cmd EXCEPT ![c] = Nothing] /\ UNCHANGED <<data, pages, blank, history, up>>
  BY DEF BuyPutSeats, At
<1>3. cmd'[c] = Nothing
  BY <1>1, <1>2, CmdIs
<1>4. cmd[c].seat = seats /\ cmd[c].num <= seats /\ cmd[c].num \in Nat
  BY <1>1, <1>2, LocalsAt DEF AloneInv, LocalsCurrent
<1>5. LocalsCurrent(c)' /\ Unfiled(c)' = Unfiled(c) /\ Due(c)' = 0 /\ Due(c) = cmd[c].num
  BY <1>2, <1>3 DEF LocalsCurrent, Unfiled, Due, Nothing
<1>6. /\ -cmd[c].num \in Int /\ seats' \in Nat
      /\ seats' = seats + -cmd[c].num /\ Due(c)' = Due(c) + -cmd[c].num
  BY <1>1, <1>2, <1>4, <1>5
<1>. QED
  BY <1>2, <1>5, <1>6, SeatsStep

\* The first accesses of refund_ticket find an order that stands.
LEMMA RefundGetOrderStep ==
  ASSUME NEW c, Connections = {c}, AloneInv(c),
         NEW u \in Users, NEW n \in 1 .. MaxOrders, RefundGetOrder(c, u, n)
  PROVE  AloneInv(c)'
<1>1. PICK i : i = history[u][n]
  OBVIOUS
<1>2. PICK r : r = [at |-> "refundOrder", idx |-> i, num |-> data[i].num]
  OBVIOUS
<1>3. /\ up /\ cmd[c].at = "idle" /\ n \in 1 .. Len(history[u]) /\ data[i].status # Refunded
      /\ cmd' = [cmd EXCEPT ![c] = r] /\ UNCHANGED <<seats, data, pages, blank, history, up>>
  BY <1>1, <1>2 DEF RefundGetOrder, Idle
<1>4. TypeOK /\ history[u] \in Seq(DOMAIN data)
  BY DEF AloneInv, TypeOK
<1>5. i \in DOMAIN data /\ data[i] \in OrderType /\ i \in Nat
  BY <1>1, <1>3, <1>4 DEF AloneInv, TypeOK, ElementsSound
<1>6. data[i].num \in TicketNums /\ data[i] = [num |-> data[i].num, status |-> Success]
  BY <1>3, <1>5 DEF OrderType
<1>7. r \in Locals
  BY <1>2, <1>5, <1>6 DEF Locals
<1>8. cmd'[c] = r
  BY <1>3, <1>4, CmdIs
<1>9. LocalsCurrent(c)' /\ Unfiled(c)' = Unfiled(c) /\ Due(c)' = Due(c)
  BY <1>2, <1>3, <1>5, <1>6, <1>8 DEF LocalsCurrent, Unfiled, Due
<1>. QED
  BY <1>3, <1>7, <1>9, LocalsStep

\* The seats are read again after the order has been marked.
LEMMA RefundGetSeatsStep ==
  ASSUME NEW c, Connections = {c}, AloneInv(c), RefundGetSeats(c)
  PROVE  AloneInv(c)'
<1>1. TypeOK /\ seats \in Nat /\ TicketNums \subseteq Nat
  BY DEF AloneInv, TypeOK
<1>2. PICK r : r = [at |-> "giveBack", idx |-> cmd[c].idx, num |-> cmd[c].num,
                    seat |-> seats + cmd[c].num]
  OBVIOUS
<1>3. /\ up /\ cmd[c].at = "getSeats"
      /\ cmd' = [cmd EXCEPT ![c] = r] /\ UNCHANGED <<seats, data, pages, blank, history, up>>
  BY <1>1, <1>2 DEF RefundGetSeats, At, TypeOK
<1>4. cmd[c].idx \in Nat /\ cmd[c].num \in TicketNums /\ seats + cmd[c].num \in Nat
  <2>1. cmd[c].idx \in Nat /\ cmd[c].num \in TicketNums
    BY <1>1, <1>3, LocalsAt
  <2>2. cmd[c].num \in Nat
    BY <1>1, <2>1
  <2>3. seats + cmd[c].num \in Nat
    BY <1>1, <2>2
  <2>. QED
    BY <2>1, <2>3
<1>5. r \in Locals
  BY <1>2, <1>4 DEF Locals
<1>6. cmd'[c] = r
  BY <1>1, <1>3, CmdIs
<1>7. LocalsCurrent(c)' /\ Unfiled(c)' = Unfiled(c) /\ Due(c)' = Due(c)
  BY <1>2, <1>3, <1>6 DEF LocalsCurrent, Unfiled, Due
<1>. QED
  BY <1>3, <1>5, <1>7, LocalsStep

\* The seats of the refunded order are stored.
LEMMA RefundPutSeatsStep ==
  ASSUME NEW c, Connections = {c}, AloneInv(c), RefundPutSeats(c)
  PROVE  AloneInv(c)'
<1>1. TypeOK /\ seats \in Nat /\ TicketNums \subseteq Nat
  BY DEF AloneInv, TypeOK
<1>2. PICK r : r = [cmd[c] EXCEPT !.at = "serveQueue"]
  OBVIOUS
<1>3. /\ up /\ cmd[c].at = "giveBack" /\ seats' = cmd[c].seat
      /\ cmd' = [cmd EXCEPT ![c] = r] /\ UNCHANGED <<data, pages, blank, history, up>>
  BY <1>1, <1>2 DEF RefundPutSeats, At, Goto, TypeOK
<1>4. cmd[c] \in [at : {"giveBack", "serveQueue"}, idx : Nat, num : TicketNums, seat : Nat]
  BY <1>1, <1>3, LocalsAt
<1>5. /\ r \in [at : {"giveBack", "serveQueue"}, idx : Nat, num : TicketNums, seat : Nat]
      /\ r.at = "serveQueue" /\ r.seat = cmd[c].seat
  BY <1>2, <1>4
<1>6. cmd'[c] = r /\ r \in Locals
  BY <1>1, <1>3, <1>5, CmdIs DEF Locals
<1>7. cmd[c].seat = seats + cmd[c].num /\ cmd[c].num \in Nat
  BY <1>1, <1>3, <1>4 DEF AloneInv, LocalsCurrent
<1>8. LocalsCurrent(c)' /\ Unfiled(c)' = Unfiled(c) /\ Due(c)' = 0 /\ Due(c) = -cmd[c].num
  BY <1>3, <1>5, <1>6 DEF LocalsCurrent, Unfiled, Due
<1>9. cmd[c].num \in Int /\ seats' \in Nat /\ seats' = seats + cmd[c].num /\ Due(c)' = Due(c) + cmd[c].num
  BY <1>1, <1>3, <1>7, <1>8
<1>. QED
  BY <1>3, <1>6, <1>7, <1>8, <1>9, SeatsStep

\* With nobody waiting the same seats are stored again.
LEMMA RefundPutSeatsAgainStep ==
  ASSUME NEW c, Connections = {c}, AloneInv(c), RefundPutSeatsAgain(c)
  PROVE  AloneInv(c)'
<1>1. TypeOK
  BY DEF AloneInv
<1>2. /\ up /\ cmd[c].at = "serveQueue" /\ seats' = cmd[c].seat
      /\ cmd' = [cmd EXCEPT ![c] = Nothing] /\ UNCHANGED <<data, pages, blank, history, up>>
  BY DEF RefundPutSeatsAgain, At
<1>3. cmd'[c] = Nothing
  BY <1>1, <1>2, CmdIs
<1>4. seats' = seats
  BY <1>2 DEF AloneInv, LocalsCurrent
<1>5. LocalsCurrent(c)' /\ Unfiled(c)' = Unfiled(c) /\ Due(c)' = Due(c)
  BY <1>2, <1>3 DEF LocalsCurrent, Unfiled, Due, Nothing
<1>6. UNCHANGED <<seats, data, pages, blank, history, up>>
  BY <1>2, <1>4
<1>. QED
  BY <1>2, <1>5, <1>6, LocalsStep

\* The order is put into the history of its user.
LEMMA FileOrderStep ==
  ASSUME NEW c, Connections = {c}, AloneInv(c), FileOrder(c)
  PROVE  AloneInv(c)'
<1>1. TypeOK
  BY DEF AloneInv
<1>2. PICK r, u, i : r = [cmd[c] EXCEPT !.at = "putSeats"] /\ u = cmd[c].user /\ i = cmd[c].idx
  OBVIOUS
<1>3. /\ up /\ cmd[c].at = "fileOrder"
      /\ history' = [history EXCEPT ![u] = Append(@, i)]
      /\ cmd' = [cmd EXCEPT ![c] = r] /\ UNCHANGED <<seats, data, pages, blank, up>>
  BY <1>1, <1>2 DEF FileOrder, At, Goto, TypeOK
<1>4. cmd[c] \in [at : {"putElement", "fileOrder", "putSeats"},
                  user : Users, num : TicketNums, seat : Nat, idx : Nat]
  BY <1>1, <1>3, LocalsAt
<1>5. /\ r \in [at : {"putElement", "fileOrder", "putSeats"},
                user : Users, num : TicketNums, seat : Nat, idx : Nat]
      /\ r.at = "putSeats" /\ r.num = cmd[c].num /\ r.seat = cmd[c].seat /\ r.idx = i
      /\ u \in Users
  BY <1>2, <1>4
<1>6. cmd'[c] = r /\ r \in Locals
  BY <1>1, <1>3, <1>5, CmdIs DEF Locals
<1>7. /\ Unfiled(c) = {i} /\ Unfiled(c)' = {} /\ i \in DOMAIN data /\ i \notin Filed
      /\ DOMAIN data = Filed \cup {i}
  BY <1>2, <1>3, <1>5, <1>6 DEF AloneInv, Unfiled
<1>8. /\ \A v \in Users : history[v] \in Seq(DOMAIN data)
      /\ \A v \in Users : v # u => history'[v] = history[v]
      /\ history'[u] = Append(history[u], i)
      /\ history' \in [Users -> Seq(DOMAIN data)]
  BY <1>1, <1>3, <1>5, <1>7 DEF TypeOK
<1>9. /\ Len(history[u]) \in Nat /\ Len(history'[u]) = Len(history[u]) + 1
      /\ history'[u][Len(history[u]) + 1] = i
      /\ \A m \in 1 .. Len(history[u]) : history'[u][m] = history[u][m]
  BY <1>5, <1>8
<1>10. \A v \in Users : \A m \in 1 .. Len(history[v]) : history[v][m] \in Filed
  BY <1>8 DEF Filed, ToSet
<1>11. ASSUME NEW v \in Users, NEW m \in 1 .. Len(history'[v])
       PROVE  \/ m \in 1 .. Len(history[v]) /\ history'[v][m] = history[v][m]
              \/ v = u /\ m = Len(history[u]) + 1 /\ history'[v][m] = i
  BY <1>8, <1>9
<1>12. FiledOnce'
  <2>1. ASSUME NEW v \in Users, NEW w \in Users, NEW m \in 1 .. Len(history'[v]),
               NEW n \in 1 .. Len(history'[w]), history'[v][m] = history'[w][n]
        PROVE  v = w /\ m = n
    <3>1. FiledOnce
      BY DEF AloneInv, FiledOnce
    <3>2. CASE m \in 1 .. Len(history[v]) /\ history'[v][m] = history[v][m]
      <4>1. history'[v][m] # i
        BY <1>7, <1>10, <3>2
      <4>2. n \in 1 .. Len(history[w]) /\ history'[w][n] = history[w][n]
        BY <1>11, <2>1, <4>1
      <4>3. history[v][m] = history[w][n]
        BY <2>1, <3>2, <4>2
      <4>. QED
        BY ONLY <2>1, <3>1, <3>2, <4>2, <4>3 DEF FiledOnce
    <3>3. CASE v = u /\ m = Len(history[u]) + 1 /\ history'[v][m] = i
      <4>1. ~(n \in 1 .. Len(history[w]) /\ history'[w][n] = history[w][n])
        BY <1>7, <1>10, <2>1, <3>3
      <4>. QED
        BY <1>11, <3>3, <4>1
    <3>. QED
      BY <1>11, <3>2, <3>3
  <2>. QED
    BY <2>1 DEF FiledOnce
<1>13. Filed' = Filed \cup {i}
  <2>1. ASSUME NEW x \in Filed' PROVE x \in Filed \cup {i}
    <3>1. PICK v \in Users : x \in ToSet(history'[v])
      BY DEF Filed
    <3>2. PICK m \in 1 .. Len(history'[v]) : x = history'[v][m]
      BY <1>8, <3>1 DEF ToSet
    <3>. QED
      BY <1>10, <1>11, <3>2
  <2>2. ASSUME NEW x \in Filed PROVE x \in Filed'
    <3>1. PICK v \in Users : x \in ToSet(history[v])
      BY DEF Filed
    <3>2. PICK m \in 1 .. Len(history[v]) : x = history[v][m]
      BY <1>8, <3>1 DEF ToSet
    <3>3. m \in 1 .. Len(history'[v]) /\ history'[v][m] = x
      <4>1. CASE v = u
        BY <1>9, <3>2, <4>1
      <4>2. CASE v # u
        BY <1>8, <3>2, <4>2
      <4>. QED
        BY <4>1, <4>2
    <3>. QED
      BY <1>8, <3>3 DEF Filed, ToSet
  <2>3. i \in Filed'
    <3>1. Len(history[u]) + 1 \in 1 .. Len(history'[u])
      BY <1>9
    <3>. QED
      BY <1>5, <1>8, <1>9, <3>1 DEF Filed, ToSet
  <2>. QED
    BY <2>1, <2>2, <2>3
<1>14. TypeOK'
  BY <1>1, <1>3, <1>6, <1>8 DEF TypeOK
<1>15. ElementsSound' /\ Sold' = Sold
  BY <1>3 DEF AloneInv, ElementsSound, Sold
<1>16. LocalsCurrent(c)' /\ Due(c)' = Due(c)
  BY <1>3, <1>5, <1>6 DEF AloneInv, LocalsCurrent, Due
<1>. QED
  BY <1>3, <1>7, <1>12, <1>13, <1>14, <1>15, <1>16 DEF AloneInv, FiledOnce

\* Pages of elements: the next page begins after this one, and only the end of
\* the page is a multiple of its size.
LEMMA PageBounds ==
  ASSUME NEW p \in Nat, NEW i \in Nat
  PROVE  /\ (p + 1) * PageSize \in Nat /\ (p + 1) * PageSize > 0
         /\ (p + 1 + 1) * PageSize = (p + 1) * PageSize + PageSize
         /\ PageSize > 1
         /\ (i + 1) % PageSize # 0 => i + 1 # (p + 1) * PageSize
<1>1. PageSize \in Nat /\ PageSize > 1
  OBVIOUS
<1>2. ((p + 1) * PageSize) % PageSize = 0
  BY <1>1
<1>3. (p + 1) * PageSize = p * PageSize + PageSize /\ p * PageSize \in Nat
  BY <1>1
<1>4. (p + 1 + 1) * PageSize = (p + 1) * PageSize + PageSize
  BY <1>1
<1>. QED
  BY <1>1, <1>2, <1>3, <1>4

\* The order is written to the blank element, or to a new page.
LEMMA WritePutElementStep ==
  ASSUME NEW c, Connections = {c}, AloneInv(c), WritePutElement(c)
  PROVE  AloneInv(c)'
<1>1. TypeOK /\ seats \in Nat /\ pages \in Nat /\ blank \in Nat /\ TicketNums \subseteq Nat
  BY DEF AloneInv, TypeOK
<1>2. PICK i : i = IF cmd[c].idx = 0 THEN (pages + 1) * PageSize ELSE cmd[c].idx
  OBVIOUS
<1>3. PICK r, o : /\ r = [cmd[c] EXCEPT !.at = "fileOrder", !.idx = i]
                  /\ o = [num |-> cmd[c].num, status |-> Success]
  OBVIOUS
<1>4. /\ up /\ cmd[c].at = "putElement"
      /\ data' = [x \in DOMAIN data \cup {i} |-> IF x = i THEN o ELSE data[x]]
      /\ pages' = IF cmd[c].idx = 0 THEN pages + 1 ELSE pages
      /\ blank' = IF (i + 1) % PageSize = 0 THEN 0 ELSE i + 1
      /\ cmd' = [cmd EXCEPT ![c] = r] /\ UNCHANGED <<seats, history, up>>
  BY <1>1, <1>2, <1>3 DEF WritePutElement, At, TypeOK
<1>5. cmd[c] \in [at : {"putElement", "fileOrder", "putSeats"},
                  user : Users, num : TicketNums, seat : Nat, idx : Nat]
  BY <1>1, <1>4, LocalsAt
<1>6. cmd[c].idx = blank /\ cmd[c].seat = seats /\ cmd[c].num <= seats
  BY <1>4 DEF AloneInv, LocalsCurrent
<1>7. ElementsSound
  BY DEF AloneInv
<1>8. /\ i \in Nat \ {0} /\ i \notin DOMAIN data /\ pages' \in Nat /\ blank' \in Nat
      /\ ElementsSound'
  <2>1. DOMAIN data' = DOMAIN data \cup {i}
    BY <1>4
  <2>2. \A x \in DOMAIN data : x \in Nat \ {0} /\ x < (pages + 1) * PageSize
    BY <1>7 DEF ElementsSound
  <2>3. CASE blank = 0
    <3>1. i = (pages + 1) * PageSize /\ pages' = pages + 1
      BY <1>2, <1>4, <1>6, <2>3
    <3>2. i \in Nat \ {0} /\ (pages' + 1) * PageSize = i + PageSize /\ PageSize > 1
      BY <1>1, <3>1, PageBounds
    <3>3. i \notin DOMAIN data /\ blank' \in Nat /\ \A x \in DOMAIN data' : x \in Nat \ {0} /\ x <= i
      BY <1>4, <2>1, <2>2, <3>1, <3>2
    <3>4. blank' # 0 => blank' = i + 1
      BY <1>4
    <3>. QED
      BY <1>1, <3>1, <3>2, <3>3, <3>4 DEF ElementsSound
  <2>4. CASE blank # 0
    <3>1. i = blank /\ pages' = pages
      BY <1>2, <1>4, <1>6, <2>4
    <3>2. i \in Nat \ {0} /\ i < (pages + 1) * PageSize /\ \A x \in DOMAIN data : x < i
      BY <1>1, <1>7, <2>4, <3>1 DEF ElementsSound
    <3>3. /\ (pages + 1) * PageSize \in Nat
          /\ (i + 1) % PageSize # 0 => i + 1 # (pages + 1) * PageSize
      BY <1>1, <3>2, PageBounds
    <3>4. i \notin DOMAIN data /\ blank' \in Nat /\ \A x \in DOMAIN data' : x \in Nat \ {0} /\ x <= i
      BY <1>4, <2>1, <2>2, <3>2
    <3>5. blank' # 0 => blank' = i + 1 /\ i + 1 < (pages + 1) * PageSize
      BY <1>4, <3>2, <3>3
    <3>. QED
      BY <1>1, <3>1, <3>2, <3>3, <3>4, <3>5 DEF ElementsSound
  <2>. QED
    BY <2>3, <2>4
<1>9. /\ r \in [at : {"putElement", "fileOrder", "putSeats"},
                user : Users, num : TicketNums, seat : Nat, idx : Nat]
      /\ r.at = "fileOrder" /\ r.num = cmd[c].num /\ r.seat = cmd[c].seat /\ r.idx = i
  BY <1>3, <1>5, <1>8
<1>10. cmd'[c] = r /\ r \in Locals
  BY <1>1, <1>4, <1>9, CmdIs DEF Locals
<1>11. /\ DOMAIN data' = DOMAIN data \cup {i} /\ data'[i] = o
       /\ \A x \in DOMAIN data : data'[x] = data[x]
       /\ o \in OrderType /\ o.num = cmd[c].num /\ o.num \in Nat /\ o.status = Success
  BY <1>1, <1>3, <1>4, <1>5, <1>8 DEF OrderType
<1>12. TypeOK'
  <2>1. data' \in [DOMAIN data' -> OrderType]
    BY <1>1, <1>4, <1>11 DEF TypeOK
  <2>2. \A u \in Users : history[u] \in Seq(DOMAIN data')
    BY <1>1, <1>11, MoreElements DEF TypeOK
  <2>3. history' \in [Users -> Seq(DOMAIN data')]
    BY <1>1, <1>4, <2>2 DEF TypeOK
  <2>. QED
    BY <1>1, <1>4, <1>8, <1>10, <2>1, <2>3 DEF TypeOK
<1>13. LocalsCurrent(c)'
  BY <1>4, <1>6, <1>9, <1>10 DEF LocalsCurrent
<1>14. FiledOnce' /\ Filed' = Filed
  <2>1. FiledOnce
    BY DEF AloneInv, FiledOnce
  <2>. QED
    BY <1>4, <2>1 DEF FiledOnce, Filed
<1>15. /\ Filed \cap Unfiled(c)' = {} /\ DOMAIN data' = Filed \cup Unfiled(c)'
  <2>1. Unfiled(c) = {} /\ DOMAIN data = Filed \cup Unfiled(c)
    BY <1>4 DEF AloneInv, Unfiled
  <2>2. Unfiled(c)' = {i}
    BY <1>9, <1>10 DEF Unfiled
  <2>. QED
    BY <1>8, <1>11, <2>1, <2>2
<1>16. IsFiniteSet(Sold') /\ Cardinality(Sold') = Cardinality(Sold) + cmd[c].num
  <2>1. OneMore(data, data', i)
    BY <1>8, <1>11 DEF OneMore
  <2>2. IsFiniteSet(Sold)
    BY DEF AloneInv
  <2>. QED
    BY <1>11, <2>1, <2>2, OneMoreTickets, SoldIs
<1>17. seats' + Cardinality(Sold') = SeatNum + Due(c)'
  <2>1. Due(c)' = cmd[c].num /\ Due(c) = 0 /\ cmd[c].num \in Nat
    BY <1>4, <1>9, <1>10, <1>11 DEF Due
  <2>2. seats + Cardinality(Sold) = SeatNum + 0 /\ Cardinality(Sold) \in Nat
    BY <2>1, FS_CardinalityType DEF AloneInv
  <2>3. SeatNum \in Nat
    OBVIOUS
  <2>. QED
    BY <1>1, <1>4, <1>16, <2>1, <2>2, <2>3
<1>. QED
  BY <1>4, <1>8, <1>12, <1>13, <1>14, <1>15, <1>16, <1>17 DEF AloneInv, FiledOnce

\* The order is marked as refunded.
LEMMA RefundPutOrderStep ==
  ASSUME NEW c, Connections = {c}, AloneInv(c), RefundPutOrder(c)
  PROVE  AloneInv(c)'
<1>1. TypeOK /\ seats \in Nat /\ TicketNums \subseteq Nat
  BY DEF AloneInv, TypeOK
<1>2. PICK r, o, i : /\ r = [cmd[c] EXCEPT !.at = "getSeats"] /\ i = cmd[c].idx
                     /\ o = [num |-> cmd[c].num, status |-> Refunded]
  OBVIOUS
<1>3. /\ up /\ cmd[c].at = "refundOrder" /\ data' = [data EXCEPT ![i] = o]
      /\ cmd' = [cmd EXCEPT ![c] = r] /\ UNCHANGED <<seats, pages, blank, history, up>>
  BY <1>1, <1>2 DEF RefundPutOrder, At, Goto, TypeOK
<1>4. cmd[c] \in [at : {"refundOrder", "getSeats"}, idx : Nat, num : TicketNums]
  BY <1>1, <1>3, LocalsAt
<1>5. /\ r \in [at : {"refundOrder", "getSeats"}, idx : Nat, num : TicketNums]
      /\ r.at = "getSeats" /\ r.num = cmd[c].num /\ cmd[c].num \in TicketNums
  BY <1>2, <1>4
<1>6. cmd'[c] = r /\ r \in Locals
  BY <1>1, <1>3, <1>5, CmdIs DEF Locals
<1>7. i \in DOMAIN data /\ data[i] = [num |-> cmd[c].num, status |-> Success]
  BY <1>2, <1>3 DEF AloneInv, LocalsCurrent
<1>8. /\ DOMAIN data' = DOMAIN data /\ data'[i] = o
      /\ \A x \in DOMAIN data : x # i => data'[x] = data[x]
      /\ o \in OrderType /\ o.status # Success
      /\ data[i].status = Success /\ data[i].num = cmd[c].num /\ cmd[c].num \in Nat
  BY <1>1, <1>2, <1>3, <1>5, <1>7 DEF OrderType, TypeOK, Success, Refunded
<1>9. TypeOK'
  <2>1. data' \in [DOMAIN data' -> OrderType]
    BY <1>1, <1>3, <1>8 DEF TypeOK
  <2>. QED
    BY <1>1, <1>3, <1>6, <1>8, <2>1 DEF TypeOK
<1>10. ElementsSound' /\ Filed' = Filed /\ FiledOnce'
  <2>1. history' = history /\ pages' = pages /\ blank' = blank /\ DOMAIN data' = DOMAIN data
    BY <1>3, <1>8
  <2>2. ElementsSound /\ FiledOnce
    BY DEF AloneInv, FiledOnce
  <2>3. ElementsSound'
    BY ONLY <2>1, <2>2 DEF ElementsSound
  <2>4. Filed' = Filed
    BY ONLY <2>1 DEF Filed
  <2>5. FiledOnce'
    BY ONLY <2>1, <2>2 DEF FiledOnce
  <2>. QED
    BY <2>3, <2>4, <2>5
<1>11. LocalsCurrent(c)' /\ Unfiled(c)' = Unfiled(c)
  BY <1>3, <1>5, <1>6 DEF LocalsCurrent, Unfiled
<1>12. IsFiniteSet(Sold') /\ Cardinality(Sold) = Cardinality(Sold') + cmd[c].num
  <2>1. OneMore(data', data, i)
    BY <1>7, <1>8 DEF OneMore
  <2>2. IsFiniteSet(Sold)
    BY DEF AloneInv
  <2>. QED
    BY <1>8, <2>1, <2>2, OneMoreTickets, SoldIs
<1>13. seats' + Cardinality(Sold') = SeatNum + Due(c)'
  <2>1. Due(c)' = -cmd[c].num /\ Due(c) = 0
    BY <1>3, <1>5, <1>6 DEF Due
  <2>2. seats + Cardinality(Sold) = SeatNum + 0 /\ Cardinality(Sold') \in Nat
    BY <1>12, <2>1, FS_CardinalityType DEF AloneInv
  <2>3. SeatNum \in Nat
    OBVIOUS
  <2>. QED
    BY <1>1, <1>3, <1>8, <1>12, <2>1, <2>2, <2>3
<1>. QED
  BY <1>3, <1>8, <1>9, <1>10, <1>11, <1>12, <1>13 DEF AloneInv, FiledOnce

-----------------------------------------------------------------------------
(* Theorems *)

\* Whatever the connection does next, its commands stay as good as alone.
LEMMA AloneStep ==
  ASSUME NEW c, Connections = {c}, AloneInv(c), [Next]_vars
  PROVE  AloneInv(c)'
<1>1. CASE Access(c)
  BY <1>1, BuyGetSeatsStep, WriteGetBlankStep, WritePutElementStep, FileOrderStep, BuyPutSeatsStep,
     RefundGetOrderStep, RefundPutOrderStep, RefundGetSeatsStep, RefundPutSeatsStep,
     RefundPutSeatsAgainStep DEF Access
<1>2. ASSUME UNCHANGED <<seats, data, pages, blank, history>>, up' \in BOOLEAN, cmd'[c] = cmd[c],
             cmd' \in [Connections -> Locals \cup {Nothing}], up' \/ cmd[c].at = "idle"
      PROVE  AloneInv(c)'
  <2>1. TypeOK'
    BY <1>2 DEF AloneInv, TypeOK
  <2>. QED
    BY <1>2, <2>1 DEF AloneInv, ElementsSound, LocalsCurrent, Filed, Unfiled, Sold, Due
<1>3. CASE Exit(c)
  BY <1>2, <1>3 DEF Exit, Idle, AloneInv, TypeOK
<1>4. CASE Restart
  <2>1. cmd[c] = Nothing
    BY <1>4, LocalsAt DEF Restart, AloneInv
  <2>. QED
    BY <1>2, <1>4, <2>1 DEF Restart
<1>5. CASE UNCHANGED vars
  BY <1>2, <1>5 DEF vars, AloneInv, TypeOK
<1>. QED
  BY <1>1, <1>3, <1>4, <1>5 DEF Next

\* No orders, all seats free.
LEMMA AloneInit ==
  ASSUME NEW c, Connections = {c}, Init
  PROVE  AloneInv(c)
<1>1. /\ seats = SeatNum /\ data = [i \in {} |-> 0] /\ pages = 0 /\ blank = 0 /\ up
      /\ history = [u \in Users |-> <<>>] /\ cmd = [x \in Connections |-> Nothing]
  BY DEF Init
<1>2. DOMAIN data = {} /\ cmd[c] = Nothing /\ cmd[c].at = "idle" /\ \A u \in Users : history[u] = <<>>
  BY <1>1 DEF Nothing
<1>3. TypeOK
  BY <1>1, <1>2 DEF TypeOK
<1>4. Filed = {} /\ Unfiled(c) = {} /\ Due(c) = 0 /\ Sold = {}
  BY <1>2 DEF Filed, ToSet, Unfiled, Due, Sold
<1>5. IsFiniteSet(Sold) /\ seats + Cardinality(Sold) = SeatNum + Due(c)
  BY <1>1, <1>4, FS_EmptySet
<1>6. ElementsSound /\ LocalsCurrent(c) /\ FiledOnce
  BY <1>1, <1>2 DEF ElementsSound, LocalsCurrent, FiledOnce
<1>. QED
  BY <1>1, <1>2, <1>3, <1>4, <1>5, <1>6 DEF AloneInv, FiledOnce

\* The invariant of a server with one connection: nothing a command has read
\* changes under it, and what it has yet to store is what is missing.
THEOREM OneByOneInvariance == Spec => []OneByOne
<1>1. Init => OneByOne
  BY AloneInit DEF OneByOne
<1>2. OneByOne /\ [Next]_vars => OneByOne'
  BY AloneStep DEF OneByOne
<1>. QED
  BY <1>1, <1>2, PTL DEF Spec

\* A single connection: between its commands, and across exits and restarts,
\* the free seats and the tickets sold make up the seats of the train.
THEOREM OneConnectionAddsUp ==
  (\E c : Connections = {c}) => (Spec => []SeatsAddUp)
<1>. SUFFICES ASSUME NEW c, Connections = {c} PROVE Spec => []SeatsAddUp
  OBVIOUS
<1>1. OneByOne => SeatsAddUp
  <2>. SUFFICES ASSUME OneByOne, Quiet PROVE seats + Cardinality(Sold) = SeatNum
    BY DEF SeatsAddUp
  <2>1. Due(c) = 0
    BY DEF Quiet, Due
  <2>2. seats + Cardinality(Sold) = SeatNum + 0
    BY <2>1 DEF OneByOne, AloneInv
  <2>. QED
    BY <2>2
<1>. QED
  BY <1>1, OneByOneInvariance, PTL

\* A single connection: every order has an element of its own, in one place of
\* one history.
THEOREM OneConnectionFiles ==
  (\E c : Connections = {c}) => (Spec => []OrdersKeptApart)
<1>. SUFFICES ASSUME NEW c, Connections = {c} PROVE Spec => []OrdersKeptApart
  OBVIOUS
<1>1. OneByOne => OrdersKeptApart
  <2>. SUFFICES ASSUME OneByOne PROVE OrdersKeptApart
    OBVIOUS
  <2>1. Quiet => Unfiled(c) = {}
    BY DEF Quiet, Unfiled
  <2>. QED
    BY <2>1 DEF OneByOne, AloneInv, OrdersKeptApart, Filed
<1>. QED
  BY <1>1, OneByOneInvariance, PTL
=============================================================================
