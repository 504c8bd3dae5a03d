\* Four trains in two or three versions each, released in any order; one ticket sold.
\* It stops when all trains are released and the ticket is sold.
CONSTANTS
  Catalogue <- MCCatalogue
  Dates = {151, 152, 153, 154, 155}
  MaxSales = 1

SPECIFICATION Spec
INVARIANTS
  DirectTrainsExact
  ListedIsSold
  TransferIsBest
  LegsAreTickets
  TicketsMatchTimetable
CHECK_DEADLOCK FALSE
