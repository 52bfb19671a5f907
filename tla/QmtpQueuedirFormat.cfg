SPECIFICATION Spec
CONSTANTS
  Address = {a}
  MaxMessages = 1
  Clock = {t1, t2}
  DirFaults = {}
  OnePackage = TRUE
  Chains <- MCChains
  MaxRecipients = 1
  MaxBlocks = 1
  NeedsFile = {FALSE}
  HandlerFaults = {}
INVARIANTS NewHasFormat
CHECK_DEADLOCK FALSE
