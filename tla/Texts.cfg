SPECIFICATION Spec
CONSTANTS
  Kind = {"body", "dump", "hops", "patterns", "address", "imap"}
  Alphabet <- MCAlphabet
  MaxLength <- MCMaxLength
  TopLines = {0, 1, 9}
  BufSize = 3
  Received <- MCReceived
  DeliveredTo <- MCDeliveredTo
  Upper <- MCUpper
  LineMax = 2
  Patterns <- MCPatterns
  MAX_ARGC = 2
  AuthMax = 2
  Digit <- MCDigit
  ImapCommand = {"LOGIN", "AUTHENTICATE", "NOOP", "LOGOUT"}
  ImapString <- MCImapString
  MaxArgs = 3
  MaxLines = 3
INVARIANT BodyIsUnstuffed
INVARIANT RetrIsStuffed
INVARIANT LinesAreScanned
INVARIANT AddressIsParsed
INVARIANT ImapIsUnderstood
CHECK_DEADLOCK FALSE
