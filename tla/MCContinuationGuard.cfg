SPECIFICATION FairGuardSpec
CONSTANTS
  None = None
  Histories <- MCHistories
  Texts <- MCTexts
  Turns <- MCTurns
  MaxMessages = 9
  MaxVersion = 2
INVARIANTS
  GuardTypeOK
  ProviderSafe
  GuidanceDelivered
  RetriesAreOfTheFailedCall
  AnswerIsCurrent
PROPERTIES
  StubbornRunsEnd
CHECK_DEADLOCK FALSE
