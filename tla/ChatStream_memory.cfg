CONSTANTS
  MaxTurns = 2
  MaxRounds = 1
  MaxTokens = 1
  IntroLength = 2
  Recycles = FALSE
SPECIFICATION Spec
INVARIANTS MemoryKeepsAnswers
CHECK_DEADLOCK FALSE
