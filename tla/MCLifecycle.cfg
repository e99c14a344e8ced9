CONSTANTS
  Main = Main
  StdErr = StdErr
  Cleanup = Cleanup
  Pipes = {stdout, stderr}
  Cdb = Cdb
  Utility = Utility
SPECIFICATION FairSpec
INVARIANT TypeOK
INVARIANT NoCdbWithoutMain
PROPERTY KeepsPromise
PROPERTY StoppedSessionFinishes
