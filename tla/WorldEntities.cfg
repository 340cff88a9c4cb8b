SPECIFICATION Spec
CONSTANTS
  WORLD_WIDTH = 3
  WORLD_HEIGHT = 3
  Ids = {0, 1, 2}
  NoCell = NoCell
  PlayerId = 0
  AiId = 2
  Start <- MCStart
  Placed <- MCPlaced
  Radii = {1}
  Walks <- MCWalks
  InstanceCell <- MCInstanceCell
  Interactions <- MCInteractions
  MovedTo <- MCMovedTo
  MovedBy <- MCMovedBy
  GridDistance = 1
INVARIANTS
  EntityInItsCell
  PointersLive
  StandsInItsCell
  AIStaysInWorld
PROPERTIES
  UpdatedOncePerFrame
CHECK_DEADLOCK FALSE
