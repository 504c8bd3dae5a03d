\* Two connections: the seats as a lock around every command would keep them.
CONSTANTS
  Connections = {c1, c2}
  Users = {u1, u2}
  SeatNum = 3
  TicketNums = {1, 2}
  PageSize = 2
  MaxOrders = 3

SPECIFICATION ServeSpec
INVARIANT
  SeatsAddUp
CHECK_DEADLOCK FALSE
