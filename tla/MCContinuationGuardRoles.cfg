SPECIFICATION GuardSpec
CONSTANTS
  None = None
  Histories <- MCHistories
  Texts <- MCTexts
  Turns <- MCTurns
  MaxMessages = 9
  MaxVersion = 2
CHECK_DEADLOCK FALSE
INVARIANT NoReminderAfterTool
