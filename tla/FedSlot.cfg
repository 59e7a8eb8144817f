SPECIFICATION FairSpec
CONSTANTS
    p1 = p1
    Locals = {l1, l2}
    Streams = {s1}
    Peers = {p1}
    PeerOf <- OnePeer
    NoClient = NoClient
    Capacity = "one"
    MaxFlight = 1
INVARIANTS
    NoOrphanMirror
PROPERTIES
    OriginSeats
    RequestsAnswered
    SlotsFreed
\* The clients may have left for good.
CHECK_DEADLOCK FALSE
