\* One connection: what the command sequences do to the seats without interleaving.
CONSTANTS
  Connections = {c1}
  Users = {u1, u2}
  SeatNum = 3
  TicketNums = {1, 2}
  PageSize = 2
  MaxOrders = 4

SPECIFICATION Spec
INVARIANTS
  SeatsAddUp
  OrdersKeptApart
  OneByOne
CHECK_DEADLOCK FALSE
