SPECIFICATION FairSpec
CONSTANTS
  Address = {a}
  MaxMessages = 1
  PipeSize = 1
  QmailFaults = {}
  HandlerFaults = {"scratch"}
  Chains <- MCChains
  MaxRecipients = 1
  MaxBlocks = 2
  SessionAlarm = FALSE
  NeedsFile = {FALSE,TRUE}

PROPERTIES QmailQueueEnds AnsweredOrChildDead
CHECK_DEADLOCK FALSE

