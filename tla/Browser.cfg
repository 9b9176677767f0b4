SPECIFICATION BrowserSpec
CONSTANTS
  Pastes = {1, 2}
  Text <- MCText
  MaxKeys = 3
  MaxKeysBefore = 1
  Bunch = 4
  Buttons = {1, 2}
  Step = 1
  MaxCluster = 3
  Wrap = 8
  Times = {0, 1, 3, 4, 9}
  MaxPackets = 4
  MaxStarts = 2
  Surfaces = {1, 2}
  Images = {1}
  MaxSurfaces = 2
  MaxDraws = 3
  MaxWindow = 2
  MaxStreams = 2
  MaxFrames = 5
  MaxLoads = 2
  MaxFlows = 2
  MaxBusy = 2
  MaxChanges = 1
  VMs = {"vm1", "vm2"}
  MaxOpens = 3
INVARIANTS
  BrowserTypeOK
  ModifiersFollow TextsTyped MouseInStep SoundKept
  PicturesInPlace CacheAgrees FramesAccounted VideoFed
  DeletesWhatWasConfirmed ConsoleTitled
PROPERTIES ListCatchesUp
CHECK_DEADLOCK FALSE
