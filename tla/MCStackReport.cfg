SPECIFICATION Spec
CONSTANTS
  None = None
  uMaxStackFramesCount = 6
  uMinStackRecursionLoops = 3
  uMaxStackRecursionLoopSize = 4
  uStackHashFramesCount = 2
  uSanityCheckMaximumLoops = 48
  Functions <- MCFunctions
  Exceptions <- MCExceptions
  Tops <- MCTops
  Loops <- MCLoops
  Depths = {12, 13, 14, 24, 25, 26}
  JumpedFrom <- MCJumpedFrom
INVARIANT RecursionRepeats
INVARIANT RecursionIsRecognized
INVARIANT RecursionIdIsOfLoop
INVARIANT ExplainedIdStartsWithRelevantFrame
INVARIANT TranslationsEnd
\* One crash is followed to its end.
CHECK_DEADLOCK FALSE
