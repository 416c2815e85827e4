\* Creations of one unit, some at the lowest price level.
CONSTANTS
  MaxPrice = 3
  MaxOrders = 3
  Prices = {0, 2}
  PriceIndex <- MCPriceIndex
  Quantities = {1}
  Traders = {1}
  Requests <- CreatesOnly
  MaxRequests = 3
  MaxGap = 0
  AckSlots = 8
  FeedSlots = 6
  None = None
SPECIFICATION FairSpec
PROPERTY RequestsComplete
