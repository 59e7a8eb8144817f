SPECIFICATION Spec
CONSTANTS
    Clients = {c1, c2, c3}
    NoClient = NoClient
    Capacity = "one"
    MaxReloads = 1
    StopRaces = TRUE
SYMMETRY ClientSymmetry
PROPERTIES
    SeatsProtocol
    TakeKeepsADriver
    GrantsAreEntitled
\* Every client may have left for good.
CHECK_DEADLOCK FALSE
