SPECIFICATION Spec
CONSTANTS
  x1 = x1
  x2 = x2
  x3 = x3
  x0 = x0
  Byte <- MCByte
  Zero = x0
  Chunks <- MCChunks
  Packets <- MCChunks
  StartPositions <- MCStart
  MaxQueued = 3
INVARIANTS
  WireInOrder
PROPERTIES
  QueueDrains
CHECK_DEADLOCK FALSE
