SPECIFICATION MCSpec
CONSTANTS
  MaxConns = 3
  tcpPort = tcpPort
  SerialNames = {p, q}
  Paths = {a, b}
  MaxTries = 1
  Outlets = {x, y}
  Pdus = {g, h}
  MaxEvents = 2
INVARIANTS OnePortPerDevice WantedIsTended
PROPERTIES StopEnds LinksKeepTheirPromise ReadingsCatchUp LossIsTold
CHECK_DEADLOCK FALSE
