SPECIFICATION MCSpec
CONSTANTS
  Clients = {alice, bob}
  none = none
  elsewhere = elsewhere
  MaxRuns = 2
  MaxCancels = 2
  MaxDrops = 2
  MaxActs = 3
PROPERTIES PortOpensAgain SlotComesBack ComesBack
CHECK_DEADLOCK FALSE
