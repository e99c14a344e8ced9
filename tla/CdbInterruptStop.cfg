CONSTANTS
  Users = {u1}
  Timeouts = {o1}
  ThreadIds = {t1, t2, t3}
  Timer = Timer
  CtrlBreak = CtrlBreak
  NULL = NULL
SPECIFICATION FairSpec
PROPERTY StopEnds
