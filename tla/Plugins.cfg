SPECIFICATION Spec
CONSTANTS
  Environ <- MCEnviron
  RuleFile <- MCRuleFile
  DomainOf <- MCDomainOf
  NoDomain = "nodomain"
  Everything <- MCEverything
  Plugin = {"counters", "mailrules", "relayclient", "lua", "cvm-authenticate", "require-auth", "force-file", "accept", "accept-sender", "accept-recipient", "reject"}
  NeedsFile = {"force-file"}
  Null = "null"
  Wrapped <- MCWrapped
  Directive <- MCDirective
  MaxDirectives = 3
  Chains <- MCChains
  Sender = {"anna", "bert"}
  Recipient = {"carl@c", "dora@d"}
  Size = {0, 3}
  MaxRecipients = 3
  MaxBlocks = 4
  MaxMessages = 3
INVARIANT TypeOK
INVARIANT ListIsAsLoaded
INVARIANT SizeLimitIsLeast
INVARIANT MessagesLimited
INVARIANT RecipientsLimited
INVARIANT NothingIsLeftOver
INVARIANT RulesAnswer
PROPERTY SizeLimited
CHECK_DEADLOCK FALSE
