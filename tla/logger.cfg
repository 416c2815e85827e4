\* Batches that end at the limit, at the end of the buffer, or at an empty ring.
CONSTANTS
  Slots <- MCSlots
  Limit = 3
  BufferBytes = 830
  SafetyBytes = 310
  Cycle = 4
SPECIFICATION FairSpec
INVARIANTS
  LoggerTypeOK
  NeverTerminated
  BufferNeverOverflows
  FileInOrder
PROPERTY RingsServed
\* The logger ends when main has told it to.
CHECK_DEADLOCK FALSE
