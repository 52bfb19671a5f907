SPECIFICATION Spec
CONSTANTS
  Address = {a}
  MaxMessages = 1
  Clock = {t1, t2}
  DirFaults = {"scratchwrite"}
  OnePackage = FALSE
  Chains <- MCChains
  MaxRecipients = 1
  MaxBlocks = 1
  NeedsFile = {FALSE}
  HandlerFaults = {}
INVARIANTS AckedIsWhole
CHECK_DEADLOCK FALSE
