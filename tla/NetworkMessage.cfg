SPECIFICATION Spec
CONSTANTS
  x1 = x1
  x2 = x2
  x0 = x0
  Byte <- MCByte
  Zero = x0
  Chunks <- MCChunks
  InitialSize = 2
  MaxSize = 8
INVARIANTS
  PositionsOrdered
PROPERTIES
  ImplementsByteFifo
