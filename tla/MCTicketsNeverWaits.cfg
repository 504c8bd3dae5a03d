\* NoServableOrderWaitsEver as the documentation states it; index 28 is what the page layout gives.
CONSTANTS
  Users = {u1}
  Trains = {1}
  NumStops = 2
  DayCounts = {2}
  SeatNums = {1}
  TicketNums = {1}
  FirstIdx = 28
  MaxOrders = 4

SPECIFICATION Spec
INVARIANT
  NoServableOrderWaitsEver
CHECK_DEADLOCK FALSE
