\* One train on sale for two days, two stops, two seats: a queue loses its counter.
\* No symmetry, as FreedSeatsAreTaken is a liveness property.
CONSTANTS
  Users = {u1}
  Trains = {1}
  NumStops = 2
  DayCounts = {2}
  SeatNums = {2}
  TicketNums = {1, 2}
  FirstIdx = 3
  MaxOrders = 5

SPECIFICATION FairSpec
INVARIANTS
  SeatsConserved
  QueueInv
PROPERTY
  ImplementsWaitingList
  FreedSeatsAreTaken
CHECK_DEADLOCK FALSE
