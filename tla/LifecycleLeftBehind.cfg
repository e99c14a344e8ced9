CONSTANTS
  Main = Main
  StdErr = StdErr
  Cleanup = Cleanup
  Pipes = {stdout, stderr}
  Cdb = Cdb
  Utility = Utility
SPECIFICATION Spec
INVARIANT NoApplicationLeft
