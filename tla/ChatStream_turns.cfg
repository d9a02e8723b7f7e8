CONSTANTS
  MaxTurns = 2
  MaxRounds = 1
  MaxTokens = 1
  IntroLength = 2
  Recycles = TRUE
SPECIFICATION FairSpec
INVARIANTS OwnText BusyIsLive OutcomeShown ToolErrorsContained
PROPERTIES
  OneEndFrame
  ImplementsConversation
  PanelRecovers
  IntroCompletes
CHECK_DEADLOCK FALSE
