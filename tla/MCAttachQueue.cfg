CONSTANTS
  Applications = {p1, p2}
  Started = p1
  Utility = Utility
  Stale = Stale
  MaxQueue = 2
  MaxPort = 2
SPECIFICATION FairSpec
INVARIANT NothingDebuggedIsAbandoned
INVARIANT KnownAreReported
PROPERTY QueuedWhileRunningIsAttached
PROPERTY StartedIsNotLeftSuspended
CHECK_DEADLOCK FALSE
