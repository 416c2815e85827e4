\* A resting order trades in part.
CONSTANTS
  MaxPrice = 3
  MaxOrders = 3
  Prices = {2}
  PriceIndex <- MCPriceIndex
  Quantities = {1, 2}
  Traders = {1}
  Requests <- CreatesOnly
  MaxRequests = 3
  MaxGap = 0
  AckSlots = 8
  FeedSlots = 6
  None = None
SPECIFICATION Spec
INVARIANT FeedShowsBook
