SPECIFICATION FairSpec
CONSTANTS
  Address = {a}
  MaxMessages = 1
  PipeSize = 1
  QmailFaults = {}
  HandlerFaults = {"scratch"}
  Chains <- MCChains
  MaxRecipients = 1
  MaxBlocks = 2
  SessionAlarm = FALSE
  NeedsFile = {FALSE,TRUE}

PROPERTY Answered
CHECK_DEADLOCK FALSE

