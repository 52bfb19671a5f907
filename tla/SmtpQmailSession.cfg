SPECIFICATION Spec
CONSTANTS
  Address = {a, b}
  MaxMessages = 2
  PipeSize = 1
  QmailFaults = {"fork"}
  HandlerFaults = {"scratch"}
  Chains <- MCChains
  MaxRecipients = 1
  MaxBlocks = 1
  SessionAlarm = FALSE
  NeedsFile = {FALSE}
INVARIANT QueuedWasAccepted
PROPERTIES RefusedStaysOut ImplementsSubmission
CHECK_DEADLOCK FALSE
SYMMETRY Symmetry
