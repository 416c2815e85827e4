\* Rings of one or two slots, a market maker, four requests and ids for three of them.
CONSTANTS
  TestStore <- WithAmendment
  MakerStore <- OneMakerOrder
  SniperSlots = 1
  MakerSlots = 1
  LobSlots = 1
  AckSlots = 2
  UserAckSlots = 1
  LUTSize = 3
  Prices = {1}
  Word = 4
  MaxAcks = 2
  None = None
SPECIFICATION FairSpec
INVARIANTS
  GatewayTypeOK
  ForwardedOnceInOrder
  AcksReachTheirOrder
  LogShowsOwnRequest
PROPERTY SniperServed
\* The threads end when main has told them to.
CHECK_DEADLOCK FALSE
