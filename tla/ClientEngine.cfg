SPECIFICATION Spec
CONSTANTS
  MaxHistory = 2
  Texts <- MCTexts
  Split <- MCSplit
  Blank <- MCBlank
  Closing <- MCClosing
  Quitting <- MCQuitting
  Disks <- MCDisks
  PlayerStates <- MCPlayerStates
  Keyboards <- MCKeyboards
  EditorPrefabs <- MCEditorPrefabs
  MaxSent = 2
  MaxPasted = 1
  MaxIndex = 3
INVARIANTS
  HistoryBounded
  ImagesHeld
  TilesMatchCatalogue
PROPERTIES
  
  RecallShowsHistory
