CONSTANTS
  Users = {u1, u2}
  Timeouts = {o1}
  ThreadIds = {t1, t2, t3}
  Timer = Timer
  CtrlBreak = CtrlBreak
  NULL = NULL
SPECIFICATION FairSpec
INVARIANT TypeOK
INVARIANT OneInterruptOutstanding
INVARIANT RecordedInterruptIsComing
INVARIANT FrozenThreadIsRemembered
INVARIANT TimerOnlyWhileRunning
INVARIANT InterruptHandledUnlessStopping
PROPERTY InterruptRecordDroppedOnReport
PROPERTY DueTimeoutFires
PROPERTY StopWhilePausedEnds
