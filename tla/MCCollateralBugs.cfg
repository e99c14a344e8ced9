SPECIFICATION Spec
CONSTANTS
  Processes = {p1, p2}
  x86Processes = {p1}
  None = None
  Maximums = {None, 1, 2}
  auCollateralPoisonValues <- MCPoisonValues
  Answers <- MCAnswers
  uPageSize = 4
  Offsets <- MCOffsets
  MaxExceptions = 3
INVARIANT TypeOK
INVARIANT IgnoreFunctionIsCurrent
INVARIANT OneVerdict
INVARIANT PoisonIsRecognized
PROPERTY NotIgnoredNotChanged
\* Debugging stops with a bug that cannot be ignored.
CHECK_DEADLOCK FALSE
