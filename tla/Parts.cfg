SPECIFICATION MCSpec
CONSTANTS
  local = local
  s1 = s1
  s2 = s2
  Locals = {local}
  Streams = {s1, s2}
  QueueSize = 1
  RingSize = 2
  MaxChunks = 2
  MaxTasks = 2
  MaxHolds = 2
  Dirs = {1, 2}
  LogQueue = 3
  MaxLogged = 3
  MaxRuns = 2
  MaxMoves = 1
  MaxKeys = 4
  MaxMode = 1
  Conns = {c, d}
  Window = 3
  Threshold = 2
  Base = 1
  Cap = 4
  Life = 2
  MaxTime = 5
  Lanes = {p, q}
  MaxEvents = 1
  MaxDrops = 1
  MaxAsks = 1
  Dials = {a}
  Accepts = {b}
  none = none
  MaxAge = 3
  MaxInstance = 1
  MaxSpawns = 3
  Callers = {first, second}
INVARIANTS LossIsCounted OnePumpPerStream NothingStranded LogsAreFaithful EveryKeyOnce GuessesAreFew NewsCatchesUp OneGeneration 
CHECK_DEADLOCK FALSE
