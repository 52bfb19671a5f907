SPECIFICATION Spec
CONSTANTS
  Address = {a}
  MaxMessages = 2
  Clock = {t1, t2}
  DirFaults = {"config", "names", "create", "write", "scratch", "scratchwrite", "copy", "flush", "link", "dirsync"}
  Chains <- MCChains
  MaxRecipients = 1
  MaxBlocks = 1
  SessionAlarm = TRUE
  NeedsFile = {TRUE, FALSE}
  HandlerFaults = {"scratch"}
INVARIANTS TypeOK NewIsWhole RefusedIsNotInNew TmpIsClean
PROPERTY ImplementsSubmission
CHECK_DEADLOCK FALSE
