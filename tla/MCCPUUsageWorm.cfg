CONSTANTS
  Functions = {f, g}
  Startup = Startup
  NotExecutable = {Startup}
  MaxDepth = 3
  TimeoutIds = {o1, o2, o3, o4}
  Careful = TRUE
  NULL = NULL
SPECIFICATION FairSpec
INVARIANT TypeOK
INVARIANT BreakpointsAreRemembered
INVARIANT FailsOnlyWithoutProcess
INVARIANT OneChain
PROPERTY WormEnds
CHECK_DEADLOCK FALSE
