\* The program from its first statement to its last.
CONSTANTS
  TestStore <- CrossingOrders
  SniperSlots = 3
  LobSlots = 1
  AckSlots = 2
  UserAckSlots = 8
  FeedSlots = 3
  MaxPrice = 3
  Prices = {1, 2}
  PriceIndex <- SamePriceIndex
  Word = 8
  None = None
SPECIFICATION FairSpec
INVARIANTS
  ProgramTypeOK
  ClientAccounts
  TradesHaveTwoSides
PROPERTIES
  ShutdownCompletes
  EngineImplemented
\* The program ends.
CHECK_DEADLOCK FALSE
