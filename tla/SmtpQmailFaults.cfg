SPECIFICATION Spec
CONSTANTS
  Address = {a}
  MaxMessages = 1
  PipeSize = 1
  QmailFaults = {"oom", "pipe", "chdir", "fork", "lseek", "envelope"}
  HandlerFaults = {"scratch"}
  Chains <- MCChains
  MaxRecipients = 2
  MaxBlocks = 2
  SessionAlarm = TRUE
  NeedsFile = {TRUE,FALSE}
INVARIANTS TypeOK AcceptedIsQueued QueuedIsWhole
CHECK_DEADLOCK FALSE
