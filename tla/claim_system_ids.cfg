\* An order and an amendment of it.
CONSTANTS
  TestStore <- WithAmendment
  MakerStore <- NoMakers
  SniperSlots = 3
  MakerSlots = 3
  LobSlots = 3
  AckSlots = 2
  UserAckSlots = 2
  LUTSize = 4
  Prices = {1}
  Word = 4
  MaxAcks = 1
  None = None
SPECIFICATION Spec
INVARIANT OneSystemIdPerOrder
\* The threads end when main has told them to.
CHECK_DEADLOCK FALSE
