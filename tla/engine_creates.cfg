\* The program's own traffic: creations only, five of them, two of the queue's prices and one
\* above the last level.
CONSTANTS
  MaxPrice = 3
  MaxOrders = 5
  Prices = {2, 4, 7}
  PriceIndex <- MCPriceIndex
  Quantities = {1, 3}
  Traders = {2}
  Requests <- CreatesOnly
  MaxRequests = 5
  MaxGap = 4
  AckSlots = 1
  FeedSlots = 5
  None = None
SPECIFICATION FairSpec
INVARIANTS
  BestPricesExact
PROPERTIES
  PriceTimePriority
  RequestsComplete
