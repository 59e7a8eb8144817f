SPECIFICATION MCSpec
CONSTANTS
  viewer = viewer
  origin = origin
  alice = alice
  console1 = console1
  console2 = console2
  none = none
  Nodes = {viewer, origin}
  Dialer = viewer
  Users = {alice}
  Home <- AtViewer
  Exported <- OriginOnly
  Driven = {console1}
  MaxConns = 2
  MaxSid = 4
  MaxLives <- ViewerOnce
  Out = {a}
  In = {b}
  MaxAge = 3
  MaxInstance = 1
INVARIANTS RemembersStreams SeatsFollowStreams
PROPERTIES StreamComesBack FailsOver SilentIsDropped
CHECK_DEADLOCK FALSE
