---------------------------- MODULE WaitingList ----------------------------
(***************************************************************************)
(* What buying, waiting and refunding promise.  Each train and day is a    *)
(* list of its own: an order takes seats or waits for them; when seats     *)
(* come back the list is served, an older order before a younger one, and  *)
(* not left before nobody who waits fits in.  A list for which the promise *)
(* is void still sells and takes back, and serves whom it likes or nobody. *)
(***************************************************************************)
EXTENDS Integers

CONSTANTS
  Lists,      \* a train and a day
  Legs,       \* the segments of a journey
  Numbers,    \* numbers of orders: a younger order has a larger one
  TicketNums,
  SeatNums,
  Pending, Success, Refunded

VARIABLES
  orders,     \* number -> [on, legs, num, status]
  free,       \* list -> free seats of each segment
  serving,    \* the list that is being served, as a set
  void        \* lists for which the promise is void

vars == <<orders, free, serving, void>>

Init ==
  /\ orders = [i \in {} |-> Pending]
  /\ free = [l \in {} |-> 0]
  /\ serving = {}
  /\ void = {}

Room(o) == \A j \in o.legs : free[o.on][j] >= o.num

\* The free seats of the list of o change by n on the segments of o.
Change(o, n) ==
  free' = [free EXCEPT ![o.on] = [j \in Legs |-> IF j \in o.legs THEN @[j] + n ELSE @[j]]]

SetStatus(i, s) == orders' = [orders EXCEPT ![i].status = s]

Enter(i, o) ==
  /\ \A j \in DOMAIN orders : j < i
  /\ orders' = [j \in DOMAIN orders \cup {i} |-> IF j = i THEN o ELSE orders[j]]

Open(L, m) ==
  /\ serving = {}
  /\ L \cap DOMAIN free = {}
  /\ free' = [l \in DOMAIN free \cup L |-> IF l \in L THEN [j \in Legs |-> m] ELSE free[l]]
  /\ UNCHANGED <<orders, serving, void>>

Close(L) ==
  /\ serving = {}
  /\ \A i \in DOMAIN orders : orders[i].on \notin L
  /\ free' = [l \in DOMAIN free \ L |-> free[l]]
  /\ UNCHANGED <<orders, serving, void>>

Buy(i, o) ==
  /\ serving = {}
  /\ Room(o)
  /\ o.status = Success
  /\ Enter(i, o)
  /\ Change(o, -o.num)
  /\ UNCHANGED <<serving, void>>

Wait(i, o) ==
  /\ serving = {}
  /\ ~Room(o)
  /\ o.status = Pending
  /\ Enter(i, o)
  /\ UNCHANGED <<free, serving, void>>

Cancel(i) ==
  /\ serving = {}
  /\ orders[i].status = Pending
  /\ SetStatus(i, Refunded)
  /\ UNCHANGED <<free, serving, void>>

Refund(i) ==
  /\ serving = {}
  /\ orders[i].status = Success
  /\ SetStatus(i, Refunded)
  /\ Change(orders[i], orders[i].num)
  /\ \/ serving' = {orders[i].on}
     \/ serving' = {} /\ orders[i].on \in void
  /\ UNCHANGED void

\* The orders that wait on l and would fit in.
Servable(l) ==
  {i \in DOMAIN orders : orders[i].on = l /\ orders[i].status = Pending /\ Room(orders[i])}

Serve(i) ==
  /\ orders[i].on \in serving
  /\ i \in Servable(orders[i].on)
  /\ orders[i].on \in void \/ \A j \in Servable(orders[i].on) : i <= j
  /\ SetStatus(i, Success)
  /\ Change(orders[i], -orders[i].num)
  /\ UNCHANGED <<serving, void>>

\* The promise becomes void, not before everybody has been served once more.
Lose(l) ==
  /\ l \in serving
  /\ Servable(l) = {}
  /\ void' = void \cup {l}
  /\ UNCHANGED <<orders, free, serving>>

Done(l) ==
  /\ l \in serving
  /\ l \in void \/ Servable(l) = {}
  /\ serving' = {}
  /\ UNCHANGED <<orders, free, void>>

Next ==
  \/ \E L \in SUBSET Lists : Close(L) \/ \E m \in SeatNums : Open(L, m)
  \/ \E i \in Numbers, l \in DOMAIN free, legs \in SUBSET Legs, n \in TicketNums :
       \/ Buy(i, [on |-> l, legs |-> legs, num |-> n, status |-> Success])
       \/ Wait(i, [on |-> l, legs |-> legs, num |-> n, status |-> Pending])
  \/ \E i \in DOMAIN orders : Cancel(i) \/ Refund(i) \/ Serve(i)
  \/ \E l \in Lists : Lose(l) \/ Done(l)

Spec == Init /\ [][Next]_vars
=============================================================================
