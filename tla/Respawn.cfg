SPECIFICATION Spec
CONSTANTS
  MaxSpawns = 3
  Callers = {first, second}
PROPERTIES EverySpawnIsWatched
CHECK_DEADLOCK FALSE
