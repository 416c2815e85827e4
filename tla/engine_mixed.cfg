\* Creations, amendments and deletions, three requests, with room for two acknowledgements.
CONSTANTS
  MaxPrice = 3
  MaxOrders = 3
  Prices = {2, 3, 4}
  PriceIndex <- MCPriceIndex
  Quantities = {1, 2}
  Traders = {1, 2}
  Requests <- MixedTraffic
  MaxRequests = 3
  MaxGap = 0
  AckSlots = 2
  FeedSlots = 6
  None = None
SPECIFICATION FairSpec
INVARIANTS
  EngineTypeOK
  BooksConsistent
  BestPricesExact
  NotCrossed
  ClientView
  FeedNeverUnderstates
PROPERTIES
  PriceTimePriority
  RequestsComplete
