SPECIFICATION Spec
CONSTANTS
  Address = {a}
  MaxMessages = 2
  Clock = {t1, t2}
  DirFaults = {"config", "names", "create", "write", "scratch", "scratchwrite", "copy", "flush", "link", "dirsync"}
  OnePackage = FALSE
  Chains <- MCChains
  MaxRecipients = 1
  MaxBlocks = 1
  NeedsFile = {TRUE,FALSE}
  HandlerFaults = {"scratch"}
INVARIANTS TypeOK NewHasItsEnvelope RefusedIsNotInNew TmpIsClean
PROPERTY ImplementsSubmission
CHECK_DEADLOCK FALSE
