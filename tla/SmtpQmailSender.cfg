SPECIFICATION Spec
CONSTANTS
  Address = {a, b}
  MaxMessages = 2
  PipeSize = 1
  QmailFaults = {}
  HandlerFaults = {"scratch"}
  Chains <- MCChains
  MaxRecipients = 1
  MaxBlocks = 1
  SessionAlarm = FALSE
  NeedsFile = {FALSE}
INVARIANT EveryMessageHasASender

CHECK_DEADLOCK FALSE
SYMMETRY Symmetry
