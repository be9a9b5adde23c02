SPECIFICATION SpecJob
CONSTANTS
  Before = 1
  IdLength = 2
  After = 2
  Terminated = TRUE
  Requeues = 1
CHECK_DEADLOCK FALSE
INVARIANTS
  TypeOKJob
  
  AnswersAreTrue
  OutputIsKept

  
