SPECIFICATION Spec
CONSTANTS
  NProcs = 3
  MaxFence = 2
INVARIANTS TypeOK LibraryLives ContextsApart
PROPERTIES AnswersAreTrue WaitAnswered
CHECK_DEADLOCK FALSE
