SPECIFICATION TracingSpec
CONSTANTS
  MaxEvents = 6
  MaxTurns = 2
  Replies <- MCReplies
  Commanding <- MCCommanding
  None = None
INVARIANTS
  TracingTypeOK
  DropsWholeTurns
  AnswersReachTheirCalls
CHECK_DEADLOCK FALSE
