SPECIFICATION MCSpec
CONSTANTS
  origin = origin
  viewer = viewer
  Nodes = {origin, viewer}
  Slow = {origin}
  MaxLive = 2
  MaxConns = 4
  MaxSends <- Payloads
  MaxLives <- OriginRestarts
  MaxLost = 1
  MaxCut = 1
  MaxCopies = 1
INVARIANTS InOrderOnce AckedMeansTaken
PROPERTIES SendBufferDrains
CHECK_DEADLOCK FALSE
