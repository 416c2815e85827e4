\* One buy book: three levels (two prices share level 0, level 1 stays empty), three orders.
CONSTANTS
  isBuy = TRUE
  MaxPrice = 3
  Ids = {0, 1, 2}
  Prices = {0, 1, 4}
  PriceIndex <- MCPriceIndex
  Quantities = {1, 2}
  Traders = {1}
  MaxEntries = 3
SPECIFICATION BookSpec
INVARIANTS
  BookTypeOK
  IndexConsistent
  CountsMatchLUT
  ActiveCountsLive
  BestPriceExact
PROPERTY TimePriorityKept
\* The book is passive: nothing need call it again (and MaxEntries ends the calls).
CHECK_DEADLOCK FALSE
