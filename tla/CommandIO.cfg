SPECIFICATION FairSpec
CONSTANTS
  OutputLines = 2
  MaxCommands = 2
  MaxWrites = 2
INVARIANT TypeOK
INVARIANT OutputIsOfLastAttempt
PROPERTY ReadEndsUnlessPromptIsMidLine
