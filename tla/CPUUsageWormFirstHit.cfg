CONSTANTS
  Functions = {f, g}
  Startup = Startup
  NotExecutable = {Startup}
  MaxDepth = 3
  TimeoutIds = {o1, o2, o3, o4}
  Careful = TRUE
  NULL = NULL
SPECIFICATION FairSpec
PROPERTY FirstHitMoves
CHECK_DEADLOCK FALSE
