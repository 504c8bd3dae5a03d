\* A train on sale for one or two days, three stops, two seats, two users: overlapping journeys wait.
CONSTANTS
  Users = {u1, u2}
  Trains = {1}
  NumStops = 3
  DayCounts = {1, 2}
  SeatNums = {2}
  TicketNums = {1, 2}
  FirstIdx = 3
  MaxOrders = 3

SPECIFICATION Spec
SYMMETRY UserSymmetry
INVARIANTS
  TypeOK
  SeatsConserved
  WaitingOrdersQueued
  NoServableOrderWaits
  OrdersKeepTheirTrain
  EveryOrderFiledOnce
PROPERTY
  NoOvertaking
  ImplementsWaitingList
  OrdersOnlyMoveOn
CHECK_DEADLOCK FALSE
