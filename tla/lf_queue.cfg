\* A ring of four slots, which holds three items: it fills, drains and wraps around.
CONSTANTS
  N = 4
  Values = {a, b, c}
  Empty = Empty
SPECIFICATION LFSpec
INVARIANTS
  LFTypeOK
  NeverSameSlot
  AssertionsHold
  NoTornRead
  KeptSlotStays
PROPERTIES
  ImplementsFIFO
