# A verification project for mailfront

mailfront is a front end for mail servers: one process per connection speaks SMTP, QMTP or QMQP with
a client, asks a chain of plugins about every sender, recipient and message, and hands accepted mail
to a backend. This directory holds TLA+ models of it, TLC runs that check them, and TLAPS proofs.
`PROJECT.json` lists the runs, the source lines each definition stands for, the hazards and the
theorems. Line references are to the files of the repository.

## 1. The system

| component | state it keeps | operations | hard behaviours | what makes it correct |
|---|---|---|---|---|
| handlers (`mailfront.c`, `responses.c`) | `session.fd` and the file behind it, `data_response`, flags | `handle_reset/sender/recipient/data_start/data_bytes/message_end`, `exitfn`, the `MODULE_CALL` rule | a hook or a write failing in the middle; `exit` from a signal handler; early returns that skip the reset or the clearing of `data_response` | a refusal wins; an error in the body refuses the message; every way out resets the backend |
| SMTP (`protocol-smtp.c`) | `saw_mail`, `saw_rcpt` | the commands, `copy_body` | commands in any order, the client vanishing anywhere | a message has exactly the envelope that was accepted for it |
| QMTP, QMQP (`protocol-qmtp.c`, `protocol-qmqp.c`, `netstring.c`) | `resp` | one package after another | the body comes before the envelope; after an error the rest is skipped | one package never changes another |
| qmail backend (`backend-qmail.c`) | the envelope `buffer`, two pipes, `qqpid` | the hooks; fork and exec of qmail-queue, writes, `waitpid` | a concurrent process that blocks, fails and is killed; full pipes | told accepted iff queued; no process is left waiting; no session hangs |
| queuedir backend (`queuedir.c`) | `tempname`, `destname`, `msgbuf`, `tmpfd`, the directories | the hooks; create, write, sync, link, sync, unlink | crashes and power failures between any two calls, a consumer of `new/` | a file in `new/` is whole, and an accepted one lasts |
| timeouts (`timeout.c`) | the alarm | `set_timeout`, `handle_alarm` | the alarm between any two steps | a session ends |
| session store (`session.c`, `getprotoenv.c`) | string and number tables, environment overlay | set, get, delete, reset | two tables that share removal, duplicates | a name has one value, the tables are independent |
| module list (`modules.c`, `builtins.c`) | the plugin list, flags | append, prepend, remove, load | order, removal after side effects | the chain is the one asked for |
| counting plugins (`plugin-counters.c`, `plugin-mailrules.c`, `plugin-patterns.c`) | counters and limits, rules, line buffer | every hook | limits that outlive messages; order of plugins | limits hold, and per message |
| POP3 maildir server (`pop3front-maildir.c`, `pop3-*.c`) | the scan, per-message flags, totals | the commands, QUIT's renames | two sessions and a deliverer over one maildir | no message is lost; totals agree |
| authenticating front ends (`pop3front-auth.c`, `imapfront-auth.c`) | attempts | the dialogues | limits of attempts | exec only after success |
| texts (`copy_body`, `parse_addr_arg`, `dump_msg`, the header and pattern scanners, IMAP's `parse_line`) | flags and positions kept from one character, block or buffer to the next | one character | CR, LF, periods, quotes and literals across boundaries | what is read is what the text means line by line |
| other plugins, TLS, echo backend, byte counts | little | lookups, text | external services | not part of this project |

How they interact: a protocol calls the handlers; a handler runs the hook of each plugin in the order
of `session.plugin_list`, then the backend's (for `data_start` the backend first), by the rule of
`MODULE_CALL`; a backend talks to processes and files. Everything is one thread, interrupted only by
SIGALRM, whose handler calls `exit` and so `exitfn`, which resets. What is concurrent is outside: the
client, the qmail-queue processes, the program that empties the queue directory, kills and power
failures. Plugins never call each other; they share the session store, through which mailrules sets
limits that counters enforces and the right to relay that relayclient and require-auth grant. The
POP3 and IMAP programs are separate: a first stage authenticates and executes the second, and
sessions of the second share their maildir with each other and with deliveries, without locks.

## 2. The modules

| module | models | builds on |
|---|---|---|
| `Responses` | `response`, `response_ok`, `MODULE_CALL` | |
| `Messages` | what the client offered and was told, message by message; the container's state | `Responses` |
| `Handlers` | the handlers of `mailfront.c`, over any backend (constant operators, as `session.backend` is a table of functions) | `Responses` |
| `Smtp` | one SMTP session | `Messages`, `Handlers` |
| `Qmtp` | one QMTP or QMQP session | `Messages`, `Handlers` |
| `QmailBackend` | `backend-qmail.c` and its qmail-queue processes | `Responses` |
| `Queuedir` | `queuedir.c`, the directory, a power failure | `Responses` |
| `SmtpQmail`, `SmtpQueuedir`, `QmtpQueuedir` | `mailfront smtp qmail`, `smtp queuedir`, `qmtp queuedir`: the composition, the world around it, the properties, the refinement of `Submission` | a protocol and a backend, `Submission` |
| `Submission` | nothing of the code: the abstract specification of what every protocol over every backend promises of a session's messages | |
| `SessionStore` | the numbers and the environment of `session.c` | |
| `Counters`, `Mailrules` | the hooks of the two plugins, as operators from the session record to its next value and an answer | `SessionStore` |
| `ModuleList` | `modules.c`'s list, as pointers | |
| `Plugins` | one process: its list built from directives, then an SMTP client driving the plugins | `ModuleList`, `Mailrules`, `Responses` |
| `Maildir` | a maildir, and the scan, commands and QUIT of `pop3front-maildir.c` | |
| `Pop3Auth` | the first stage, `pop3front-auth.c` | |
| `Pop3` | sessions of both stages over one maildir, and deliveries | `Maildir`, `Pop3Auth` |
| `SmtpText`, `MailText`, `ImapFront` | parsers and scanners, one character at a time | |
| `Texts` | all of them fed with every short text | the three above |
| `MC*` | bounds for TLC | |
| `Responses_proof` | `MODULE_CALL`, for chains of any length | `Responses` |
| `QmailBackend_proof`, `Queuedir_proof` | lemmas: what each hook of the backend does to its state | the backend |
| `SmtpQmail_proof`, `SmtpQueuedir_proof`, `QmtpQueuedir_proof`, `Pop3_proof` | theorems of the compositions | the composition, the lemmas above |
| `Plugins_proof` | the list of pointers, the session store, the recursion of `Call` and `run_rules`, what each hook does; theorems of `Plugins` | `Plugins` |

How state and actions correspond to the code:

* A handler of `mailfront.c` is an operator from the container's state, the backend's state and the
  answers of the plugins to the set of its outcomes. There is more than one when a system call may
  fail and none while the backend blocks. The plugins are `Chains`, a set of sequences of answers:
  any hook may be answered by any of them.
* A response is one of five classes (null, below 400 with or without the FINAL bit, 4xx, 5xx), since
  the code tells no others apart. Addresses are model values; a body is its number of blocks.
* A command of SMTP, with every call it makes, is one action. Where the code waits (for the client,
  for a pipe, for a process) or where another actor may see what it did (each system call of
  queuedir's `message_end`, each entry of the envelope that qmail-queue reads) the action is split:
  `pc` says where the session is, and a backend that has not finished its `message_end` answers
  "busy".
* `HELO` is both HELO and EHLO; NOOP, VRFY, HELP, STARTTLS and unknown commands change nothing
  that is modelled. `Leave` is QUIT, a lost client, an input timeout or a reply that cannot be sent.
  QMQP is QMTP that ends after one package (`OnePackage`); a session that only ever sends one
  package and leaves is also among QMTP's behaviours.
* `offer` and `mail` are history: what the client was told is accepted, and the fate of each message
  ("open", "ack", "nak", "cut" when the session ended before the whole body came, "unknown" when it
  ended after it). No guard of a handler reads them, except that the bounds count the blocks and
  the recipients recorded there.

* In `Plugins` the state of the plugins and of the session store is one record `x`. A hook is a set of
  outcomes `[x, resp]`; `Call` is `MODULE_CALL` over them, in the order of the list. `Load` reads one
  directive, of the command line first (`Wrapped`) and then of `$PLUGINS`; the list of a session is one
  of `Chains` (bound). HELO, RSET, MAIL, RCPT, DATA, Block and End are the handlers seen from the
  plugins; the backend may answer anything. The rules are records; a glob is the set of addresses it
  matches, a file the set of its entries. `era` and `last` are history.
* In `Pop3` each entry that a scan reads (`ReadDir`) is a step, and so are the opening of `cur/` and of
  `new/`, each `make_msg`, and the `unlink` or `rename` of each message by QUIT, since these are the
  system calls that other sessions come between. `readdir` gives, in an order of its own, every entry
  that stays in the directory once, and may or may not give one that comes or goes while it is read; a
  rename is both, so that both names may be read, or neither. (That the library reads many entries at a
  time makes no difference: the list is the session's own until the scan is done.) A command is one
  step. A message stands for its contents; `Name` is what of a file name the code looks at; the UID, its
  own part cut at a comma and at 70 characters, is `Uid` of the message, which two may share. `Lost` is
  a lost connection, QUIT before login, a timeout, a kill and an error that ends the session. LAST,
  NOOP, CAPA and UIDL or LIST of one message change nothing.
* In `Texts` the state of a machine is what the code keeps from one character to the next. A line of
  an IMAP client is made of values that it sends in any of the three forms; reading a literal, the
  parser waits for more input. The client waits for the "+" before it sends the octets; those of a
  client that does not would be, after a refusal, its next line.

### External parts, and what is assumed of them

* qmail-queue reads the message to its end, then the envelope; it queues the message only when it
  has read a complete envelope that starts with a sender, exits 0 only after that, and may fail or be
  killed at any step. A process stopped by a signal (`WUNTRACED`) is not modelled.
* bglibs' `obuf` remembers an error: every later call on it fails.
* A power failure may lose a link whose directory was not synced and truncate data that was not
  synced. That the unlinking of a taken or temporary file may also be undone is not modelled, nor is
  `tmp/` after a power failure.
* `unlink`, `rename` and `stat` on a maildir fail only for a file that is not there. Deliveries
  use names that are new. The authenticator accepts, refuses or fails as it likes.
* A write to a pipe of `backend-qmail.c` does not fail, because the session holds the reading end
  itself and blocks SIGPIPE; the failure branch of `data_block` is written down (fault "block") but
  no run takes it.

## 3. The runs

| run | question | bounds |
|---|---|---|
| `smtp_qmail_session` | Is what is queued what the client was told is accepted, whatever the order of its commands? Does the session implement `Submission`? | 2 addresses, 2 messages, 1 recipient and 1 block each, pipe of 1, fork may fail |
| `smtp_qmail_faults` | Does an accepted message survive every failing call, with and without a temporary file, with the alarm anywhere? | 1 message, 2 recipients, 2 blocks, every fault |
| `smtp_qmail_liveness` | Does every qmail-queue end, and every wait, when no alarm is armed? | 1 message, 2 blocks, pipe of 1 |
| `smtp_qmail_hang` (violation) | ... every wait, without exception? | the same |
| `smtp_qmail_sender` (violation) | Has every message a sender? | 2 messages |
| `smtp_queuedir` | Is what is in `new/` whole, lasting and wanted, at every moment, and does the session implement `Submission`? | 2 messages, 2 file names, every fault, alarm, SIGKILL, power failure, both settings of `_NOSYNC` |
| `qmtp_queuedir` | The same when the body comes first | 2 packages, 2 file names, every fault |
| `qmtp_queuedir_format` (violation) | Is the documented format kept by QMQP? | 1 package, no fault |
| `qmtp_queuedir_block` (violation) | Is an accepted package whole when a write fails? | 1 package, 1 fault |
| `pop3` | Does every listing, total and limit fit the maildir, and does no mail disappear that was not deleted? | 2 sessions, 2 messages of which one carries its size in its name, first files in 4 states, both with one UID, `$MAX_MESSAGES` of 2 and at most 1 of `new/`, 2 USER commands and 2 failures of login, sessions lost anywhere |
| `plugins` | Is the plugin list the one asked for, and are limits, rules and relaying those of the message at hand? | 3 directives; 5 chains; 4 addresses, 2 messages, 3 blocks; a rule file of 11 lines with every code |
| `texts` | Is every text read as what it means? | every text of 5 to 8 characters of the 3 to 8 that its machine tells apart; lines of up to 3 IMAP arguments |

Why the bounds are enough. Two messages are what it takes for one to leak into another: all that
outlives a message (`saw_mail`, `buffer`, `data_response`, the pipes, `tempname`, `destname`,
`tmpfd`) is written by the first and read by the second. Two addresses tell one envelope from
another. A pipe of one item fills with one item; two blocks are needed to fill it and be stuck. Two
file names allow a name to be still in use. A chain of two plugins makes a plugin that accepts be
overruled by the next; more add nothing that `MODULE_CALL` does not already reduce, which
`RefusalWins` proves for chains of any length.

In `pop3` it takes a second session to make a name stale, or to give a message a second name while its
directory is read, and two messages for one to be cut off by a limit or left over when the other goes;
all sessions begin alike, so they are symmetric. `$MAX_CUR_MESSAGES` is off in the run, since it is
`$MAX_NEW_MESSAGES` over again; `LimitsAlwaysHold` is about all three. In `plugins` the limits (3 bytes,
2 messages, 2 recipients, 1 by a rule) are reached and passed within the bounds; what outlives a message
is written by the first and read by the second; and three directives make any list from the wrapped one
and then remove its head, its middle, its tail or all. In `texts` a text is long enough for a header, a
blank line and a line of body, names are shortened to 2 and 3 letters of which they share some, and a
buffer to 3 octets, so that each boundary falls everywhere.

Deadlock is not checked: a closed session stops, and a session may really wait for ever (see
`smtp_qmail_hang`).

### What the properties say

* `QueuedWasAccepted`: only the current transaction is ever queued. HELO and the end of DATA leave
  `saw_mail` and `saw_rcpt` set, so what keeps this true is that the backend's buffer then holds
  nothing that starts with a sender.
* `AcceptedIsQueued`, `QueuedIsWhole`: told accepted implies queued, and with all of its blocks.
* `RefusedStaysOut`: once refused or cut, a message is not queued by a process still running.
* `QmailQueueEnds`, `AnsweredOrChildDead`: nobody waits for ever, but on a full pipe whose reader
  died.
* `NewIsWhole`, `RefusedIsNotInNew`, `TmpIsClean`, and their QMTP forms: the promises of the queue
  directory, at every moment and after a power failure.
* `ImplementsSubmission`: the same small specification holds of both protocols and both backends. A
  message is told one verdict; it is accepted only when it is stored; what is stored stays, but for a
  message that is being refused or lost and for a power failure, which takes no accepted message
  from a synced directory; and no step stores a message that was refused or cut short. `told` is
  `mail[k].verdict`; `stored` is the messages that qmail-queue has queued, or those that are in `new/`
  or were taken from there; `kept` says whether anything was synced when the power failed. That an
  acknowledged message is in `new/` (`AckedIsInNew`) follows, and is no property of a run any more.
* `ListedOnce`, `StatAgrees`, `LimitsHold`: what may show twice in a POP3 session's listing, which is
  two names of one message that was flagged in `cur/` meanwhile, or two messages with one UID, and not
  a message that is moved out of `new/`, because `cur/` is read before `new/`; the totals are those of
  the listing, whether or not it has such entries; it is limited.
* `NoMailIsLost`, `NamesNeverReturn`, `DeletedIsGone`, `ReadWasFetched`: a file goes only in the QUIT
  of a session that deleted this very entry; since no name is ever used again, a stale one harms nothing.
* `FailuresAreLimited`: every kind of failed login counts.
* `ListIsAsLoaded`: the pointers are the list that the directives describe, tail included.
* `SizeLimitIsLeast`, `SizeLimited`, `MessagesLimited`, `RecipientsLimited`: the limit in force is the
  least of `$DATABYTES` and those the rules gave since the last reset, no less and no more, and it is
  enforced over the whole message, the whole session and the whole list of recipients, but for those
  recipients that a plugin in front of counters accepts with a final answer.
* `NothingIsLeftOver`: no recipient is refused on account of an earlier message's
  (`RefusedForThisMessage`: more were asked for in this one than some limit on them), and a right to
  relay ends with the reset (`RelayIsForThisMessage`). `RulesAnswer`: the answer is that of the first
  rule that matches with its ands, and with the sender of this message.
* `BodyIsUnstuffed`, `RetrIsStuffed`, `LinesAreScanned`, `AddressIsParsed`, `ImapIsUnderstood`: each
  machine against a definition that looks at whole lines; the exceptions they make are listed below.

### Fairness

Only `smtp_qmail_liveness` and `smtp_qmail_hang` need any: the session's own code goes on when it can
(`BlockHandled`, `EndGoesOn`), each qmail-queue goes on when it can, the alarm strikes if it is
armed, and a client that is silent within a body is timed out (`inbuf.io.timeout` is always set,
`timeout.c:49-51`). Nothing makes a client send anything, a plugin answer one way or the other, or a
process fail. All of it is weak: an action that stays possible is taken, since each is the only thing
its process is doing.

### Where the code departs from its documents

1. `timeout.c:57` stores the default of 86400 seconds in the wrong variable, so no session alarm is
   armed unless `SESSION_TIMEOUT` is set. `smtp_qmail_hang` shows a session that then never ends: its
   qmail-queue died with a pipe full, and the session, which keeps the reading end open
   (`backend-qmail.c:94-101`), waits in `write`.
2. A second DATA, or DATA after HELO, starts a message with no sender (`protocol-smtp.c:229-246`),
   although `plugin-api.html` says the sender hook is called exactly once per message. With the qmail
   backend nothing is queued, since the envelope is refused; with queuedir the message is refused.
3. By QMTP and QMQP, queuedir stores no NUL behind the envelope (`queuedir.c:120-128`).
4. By QMTP and QMQP, a failed write to queuedir's scratch file is ignored (`mailfront.c:175-176`) and
   the message is accepted without that block.

No run expects these; the properties are stated so that they leave them out, or no property speaks of
them:

5. A line of DATA that begins with CR and a period loses the period (`protocol-smtp.c:217`; the flag
   is commented "True if the first character was a period"), and the line CR period LF ends the
   message. `BodyIsUnstuffed` leaves such texts out.
6. An LF that is the first octet of a 4096-octet buffer is taken for the blank line
   (`pop3front-maildir.c:237`), so TOP may cut a header short. `RetrIsStuffed` leaves it out.
7. An address without brackets and parameters keeps its source route (`protocol-smtp.c:77`), which
   every other form loses. `AddressIsParsed` states both.
8. RSET that finds the maildir empty keeps the old `del_count` (`pop3front-maildir.c:171`): STAT then
   shows 0 minus it, unsigned. `StatAgrees` is about listings that are not empty. A `stat` that fails
   for a reason other than absence makes QUIT remove the message (`:138`).
9. With counters in front of mailrules, as documented, the reset that EHLO begins with leaves no
   `maxdatabytes`, and EHLO answers `SIZE 0` although `$DATABYTES` is set, against the comment at
   `plugin-counters.c:38`; the limit is still enforced, since sender and start lower it again.
10. A message that is refused resets limits and environment that its sender's rule gave, but DATA may
    follow again (`mailfront.c:156`), without them. `SizeLimitIsLeast` counts from the last reset.
11. `MAXRCPTS` and `MAXMSGS` of a rule last for the session (`plugin-counters.c:28`), since only
    `maxdatabytes` is deleted.
12. A scan that reads `cur/` while another session's QUIT renames a message there may list it under
    both names, or under neither (`pop3front-maildir.c:77`); one that is moved from `new/` after `cur/`
    was read is in no listing of that session. Of the two entries of a message one is stale: without
    a size in its name it is taken for deleted, with one it stays listed, its size counts twice, and
    RETR of it fails. Two UIDs that agree in their first 70 characters are the same (`:133`).
    `ListedOnce` allows these duplicates and no other; no property promises that a message is listed.
13. A final answer keeps a hook from the plugins behind. A recipient that a K rule accepts in front of
    counters is not counted; a Lua script in front of counters that answers `message_end` with a final
    number keeps `$MAXMSGS` from being reached. `RecipientsLimited` leaves out the former; no run has
    the latter.
14. The answers of a Lua script are one static record (`plugin-lua.c:148`): if `data_start`,
    `data_block` or `message_end` refuses, the reset that follows (`mailfront.c:46-49`) calls the
    script's own reset hook, if it has one, and its number replaces the refusal. In `Plugins` the
    refusal stands.

## 4. The proofs

All are about every value of the constants: any set of addresses, any plugin chains, any number of
messages, recipients and blocks, any pipe capacity, set of faults, maildir, number of sessions. Where
a theorem assumes more than the named assumptions on the constants, which TLC evaluates in every run
of the module, its statement says so and the reason is given below.

| theorems | what they state | assumed |
|---|---|---|
| `Responses_proof`: `RefusalWins` | `MODULE_CALL` never lets an acceptance outvote a refusal that no final answer precedes | |
| `SmtpQmail_proof`: `OnlyAcceptedIsQueued` | `QueuedWasAccepted` | no fault "oom" |
| `SmtpQmail_proof`: `AcceptedAlwaysQueued`, `RefusedAlwaysStaysOut`, `TypeCorrect` | `AcceptedIsQueued`, `RefusedStaysOut`, `TypeOK` | |
| `SmtpQmail_proof`: `QueuedAlwaysWhole` | `QueuedIsWhole` | no fault "block" |
| `SmtpQueuedir_proof`: `NewAlwaysWhole`, `AckedAlwaysInNew`, `RefusedNeverInNew`, `TmpAlwaysClean`, `TypeCorrect` | the invariants of `smtp_queuedir` | |
| `QmtpQueuedir_proof`: `NewAlwaysHasItsEnvelope`, `AckedAlwaysInNew`, `RefusedNeverInNew`, `TmpAlwaysClean`, `TypeCorrect` | the invariants of `qmtp_queuedir` | |
| `SmtpQmail_proof`, `SmtpQueuedir_proof`, `QmtpQueuedir_proof`: `Implementation` | `Spec => ImplementsSubmission`, the refinement that the runs check | |
| `Plugins_proof`: `ListAlwaysAsLoaded`, `TypesHold` | `ListIsAsLoaded`, `TypeOK` of `plugins` | |
| `Plugins_proof`: `MessagesAlwaysLimited` | `MessagesLimited` | counters is in the list, and no script in front of it; `$MAXMSGS` is not 0, which sets no limit |
| `Plugins_proof`: `RecipientsAlwaysLimited` | `RecipientsLimited` | counters is in the list, anywhere; `$MAXRCPTS` is not 0 |
| `Plugins_proof`: `SizeAlwaysLimited` | `SizeLimited` | counters is in the list, anywhere |
| `Plugins_proof`: `SizeLimitAlwaysLeast` | `SizeLimitIsLeast` | `$MAILRULES` is set; counters and mailrules are in the list, and no script in front of either |
| `Plugins_proof`: `NothingIsEverLeftOver` | `NothingIsLeftOver` | `$MAILRULES` is set; counters and mailrules are in the list, and no script in front of either |
| `Plugins_proof`: `RulesAlwaysAnswer` | `RulesAnswer` | `$MAILRULES` is set; mailrules is in the list, and no script in front of it |
| `Pop3_proof`: `MailIsKept`, `NamesOnlyMoveOn`, `NoDuplicates`, `StatAlwaysAgrees`, `DeletedIsGoneAlways`, `LimitsAlwaysHold`, `ReadWasFetchedAlways`, `FailuresLimited`, `TypeCorrect` | the properties of `pop3` | |

Each composition has an inductive invariant, `InductiveAlways` (for `SmtpQmail` there is a second,
`DeliveryAlways`). TLC has checked each on the bounds of a run before it was proved. The proofs are
laid out alike: one lemma for each hook and handler, saying what it does to the state; one lemma
`...Preserves` (or `...Delivers`) for each action; `NextPreserves`, which joins them; the theorems.

### What is queued by qmail-queue

`QueuedWasAccepted` speaks of processes and history, and is not inductive: whether a process gets the
right envelope was decided when `message_end` wrote the buffer to its pipe, and what the buffer holds
was decided by commands before that. `Inductive` follows the envelope along that way: the buffer, if
it starts with a sender at all, is the offer that stands (`BufferIsOffer`); when DATA may be sent it
has recipients (`OfferHasRecipients`); the message in hand was started with that offer
(`MessageIsOffer`); while its body is open its pipe is its own and unused, or the buffer has been
emptied by the reset of a failed body (`BodyHasPipe`); so what `message_end` writes is its message's
offer (`EnvelopesAreOffers`); messages not started have no envelope (`NoEnvelopeYet`); and a process
queues a complete envelope only (`QueuedIsComplete`). "If it starts with a sender" is what lets the
invariant pass over HELO, over DATA without MAIL, and over the text of the last success that
`message_end` leaves in the buffer. Want of memory is excluded for a reason: `do_recipient` may append
a part of an entry and then refuse the recipient (`backend-qmail.c:54-56`), and that part is sent to
qmail-queue with the rest.

`Delivery` follows the blocks and the answer, and needs nothing of the envelope but whether it was
written, so that no fault is excluded. While a message arrives all of it that was handed on is in the
scratch file or went into the pipe of its own process, or the message was reset (`BodyIsFed`); the
process that `message_end` waits for is the message's own (`EndIsOwn`), so an exit code of 0 is about
this message; and a message that was refused or cut short is queued already, or its process is barred
for good (`Barred`): it does not run, or its envelope is incomplete, or not all of it was sent and the
pipe is closed. A block that `data_block` fails to write is missing from the message, since
`handle_data_bytes` ignores its result, hence the assumption of `QueuedAlwaysWhole`; no run has that
fault either (see the external parts).

### What is in the queue directory

The lemmas of `Queuedir_proof` say what the hooks do, whatever protocol calls them, in four terms. The
directory has no name twice and all of it is synced if anything is (`Directory`); while the process
runs, only what it has just linked has its name in `new/` (`Live`), so a reset removes the file of the
message under way and no other (`ResetWorks`); what is stored is what its message may hold and was not
refused, but for the file that is linked and not yet answered (`Files`); and in `message_end` the file
is whole before it is linked, and linked for good before it is answered (`EndIsSafe`).

In SMTP the file under way holds the offer that stands (`EnvelopeIsOffer`), then the blocks that were
handed on (`BodyIsWritten`), or the names are gone and nothing will come of it. In QMTP and QMQP no
file is named while the body comes, and the scratch file never holds more blocks than were sent; from
the sender on, the file holds the envelope as accepted so far. After an error neither is known, but
then no handler is called before the package is answered, and the next one begins with a reset. That
the body may lack a block there is departure 4 of section 3, and why the invariant says "no more",
not "as many".

The kill and the power failure may strike in every state, and the consumer of `new/` at every moment:
`KilledPreserves`, `PowerLostPreserves` and `TakenPreserves` are steps of the induction like the others.

### That every composition implements Submission

Under the refinement mapping every step must be one of `Submission`'s or a stutter. The steps of a
session fall into three kinds, told apart by lemmas: those that tell the client nothing of a message
and leave the store alone; those that open a message or tell its verdict; and the few that touch
the store. Of the last there are, for the queue directory, the link (it adds the message under way,
which is then still open), the reset (it removes that message and no other, and only while it is not
accepted) and the power failure; `Queuedir_proof` states this of the hooks once for both protocols
(`SameStore`, `MayAdd`, `MayRemove`). For qmail-queue there is only the exit of a process that queues,
and that it is not a refused message's is `RefusedStaysOut`'s argument (`Barred`). That a verdict of
success finds the message stored is what `EndIsSafe` and `EndIsOwn` are in the inductive invariants
for. The mapping needs no history beyond `mail`.

### What is in the maildir

Sessions work from names that others have changed meanwhile. The proof is that staleness has one
direction: a name moves from `new/` to `cur/` and from unread to read and never back (`Later`), each
message has one name in the maildir at a time (`OneNameEach`), and each name a session holds, wherever
it has it, is the present one or a former one (`OnceNames`). So a stale name is the name of nothing, for
ever: a `rename` or `unlink` of it does nothing, and a message that `make_msg` found gone was gone for
good from under that name (`Excused`), which is why QUIT loses no mail though it unlinks what it did
not delete itself.

A session holds no name twice, and of two names that it holds of one message both are in `cur/` and one
is what QUIT makes of the other by its flag (`HeldOnce`, `Flagged`). The order of the scan is needed for
this: while `cur/` is read only names of `cur/` are held (`Stage`), and by `Later` what is held of
`cur/` cannot be in `new/` when that is read; nor can a name in `cur/` that differs from one held be
anything but its flagged form. That the two entries are harmless needs no more than the rest: at most
one of the names is the file's.

STAT's totals are kept by hand: `msg_bytes` grows with each entry that is made, `del_bytes` and
`del_count` with each DELE, and RSET leaves them to the scan. `Agreeing` is inductive beside the rest:
in a scan that found something, and after it, the bytes are the last of the running totals of what LIST
shows (`Running`, `BytesAgree`), and `del_count` is the number of entries that the client was told are
deleted (`Told`), which needs that no other entry has the name of the one deleted (`DeleCounts`);
another entry may be of the same message. A message that was gone when its entry was made is in neither
total. Where RSET finds nothing the old counts stay, and nothing is claimed. `RunningEnds` shows that
running totals, however they were come by, end in the sum that the property is about.

### The plugin list

`load_add_plugin` moves a plugin by taking it out of a singly linked list and adding it at an end, and
each of the three helpers mends `next`, the head and the tail by hand. `Describes` says that the
pointers are a sequence of plugins without duplicates: the head is its first, each `next` the one
behind it, the tail its last, and both ends are null together. `AppendDescribes`, `PrependDescribes`
and `RemoveDescribes` show that it survives each helper, whether the plugin removed is the head, in the
middle, the tail, the only one or absent; `WalkIsList` that the walk along `next` then meets this
sequence and ends. `-*` empties the list.

### What counters enforces

The answers of the chain are a set computed along the list (`Call`), each plugin continuing from every
session that the one before may have left. `CallSteps`, `CallStays` and `CallReaches` treat that
recursion once and for all: what every hook of every plugin preserves, the chain preserves; and what
a plugin of the chain establishes and the others keep holds at the end, unless a final answer came
before it. A final answer may come before counters from mailrules, to a recipient, or from a script, to
any hook but `data_block`, whose loop looks for errors only (`MildAnswers`). So `SizeAlwaysLimited` needs
counters to be in the list but not at any place of it; `message_end` reaches counters if no script is
in front (`NoScriptBefore`, `CallHeard`), which `MessagesAlwaysLimited` assumes; and of recipients those
are counted that no final answer accepted in front of counters, which is how `RecipientsLimited` counts.
Nothing else is assumed of what the other plugins answer.

`Typed` is the first invariant: the session record has its type, which needs the rules to be followed
through reading, matching and applying (`RulesType`, `RunRules`), and every number in the store is
positive, since `minenv` and `session_getenvu` skip zeros. `Counted` is the second. The messages that
counters counted are at least those accepted, when no chain has a script in front of it (`Heard`), and
the recipients it counted at least those accepted since the last reset; they are not equal, since it
also counts what a later plugin refuses. While a body arrives the count of messages is below the limit,
the count of bytes is at least what was sent, and what was sent is within the limit that is in force.
That the last is still so at the end is the `data_response` rule: a block that was refused turns the
body into one that is swallowed. A limit may only become lower, by `minenv` in any hook, and `reset`,
which alone deletes the size limit, ends the message.

That counters is in the list, and its variables are not 0, is so in the run too. Environment variables
hold unsigned longs, and so do the assignments and the limit of every line of the rule file that is not
a comment or selector (`SessionStoreAssumption`, `MailrulesAssumption`): `session_getenvu` and
`parse_uint` read unsigned numbers, and other lines are refused (`add`).

### What the rules answer, and what is left of a message

`run_rules` goes through a table with two flags, and stops at the first rule that is not an n rule;
`Applied` looks at the whole table at once, as `mailrules.html` does. `RunRulesApplies` shows that they
agree: what the loop has done before line i is what the rules of `Applied` before i do, whatever the
order of a set of assignments, and the flag that an & rule sets says that an & in the run of &s just
before i does not match (`HeldNext`, `PrevAnd`). So a hook of mailrules answers `AnswerOf` the rules that apply
and leaves what they give (`Applies`).

`CallAlong` is the induction along the chain that the other lemmas about calls are cases of; with it
`CallThrough` follows a call to the k-th plugin and past it. `Stands` is inductive beside `Typed`: the
session record has no size limit and no environment but the process's and those of rules applied
since the last reset (`IsStanding`, which bounds the limit from below and the right to relay); each
limit that such a rule gave to a command that was not refused is in force, or is in the environment,
where counters will find it when a message starts (`IsLow`), and in a body it has been found
(`IsWithin`); and the sender that mailrules saved is that of this message while there is one. `Counting`
is the same for recipients: counters counted no more than this message asked for, since it is in the
list once, and holds them against a limit that is the process's or some rule's.

Both need the resets, and the commands that set limits, to reach the two plugins. `NoScriptBefore`
says that no Lua script, the only plugin that may end any call, is in front of them; behind them a
script may answer anything to any hook. A script in front that fails a reset, or answers it with a
final number, would leave a rule's limits and right to relay to the next message (`mailfront.c:51`, in
the list of hazards), so the assumption cannot be dropped. Without `$MAILRULES` the plugin does
nothing, and the rule file the theorems speak of is not read.

### Model-checked only

* Liveness (`QmailQueueEnds`, `AnsweredOrChildDead`): fairness and ENABLED are beyond the prover.
* Everything about the texts: `SmtpText` is recursive, so that
  what `parse_addr_arg` does is out of reach for addresses of any length, and the reference
  definitions of the others are recursive over the text.

## 5. Not modelled, and why

* The wording of replies, logging, byte counts (`iobytes.c`) and the echo backend: no state depends on
  them.
* STARTTLS and `starttls-*.c`: calls into a library, which leave one number, `tls_state`, that only
  hides or shows AUTH.
* Plugins that ask an external service or read its files (rbl, clamav, spamassassin, cvm-validate,
  qmail-validate) or check and rewrite one text (check-fqdn, add-received): each keeps no state from one hook to
  the next but its configuration, and in every model a chain of plugins may answer anything. Of the
  Lua plugin only its answers are modelled, any number, final or not; but a script may also do anything
  to the session store, and see departure 14. (Its loops
  over parameters, `plugin-lua.c:19` and others, stop before the last one.)
* The strings of the session store: no modelled plugin reads them. (`session_setstr` removes from the
  table of numbers, `session.c:121`.) `handle_helo` sets one of them.
* The characters of a rule file and of a patterns file, globs and CDB files: rules and patterns are
  given as what they match. Conversions of numbers from text, and overflow: netstring lengths, IMAP
  literal lengths, and the comparison of maildir names as ints (names that start with a number
  are ordered by it). An IMAP literal whose brace is missing makes the parser look
  at one character behind the line (`imapfront-auth.c:181`); inputs of the model have their brace.
* The limit of hops: `LinesAreScanned` is about the counts that are held against it.
* A child of the qmail backend that cannot exec runs `exitfn` itself; its reset closes its own copies
  of the pipes. File descriptors are not counted, so the one that queuedir leaves open when a QMTP
  package is refused does not show.
* The count of unknown SMTP commands: `Leave` may happen at any command.

## 6. Plan

In this order.

1. Done: `Responses`, `Messages`, `Handlers`, `QmailBackend`, `Smtp`, `SmtpQmail` and its proofs;
   `Queuedir`, `SmtpQueuedir`; `Qmtp`, `QmtpQueuedir`.
2. Done: `Maildir`, `Pop3Auth`, `Pop3`.
3. Done: `SessionStore`, `Counters`, `Mailrules`, `ModuleList`, `Plugins`.
4. Done: `SmtpText`, `MailText`, `ImapFront`, `Texts`.
5. Done: the proofs of section 4.
6. Done: `Plugins_proof`: the plugin list, types, and the limits that counters enforces.
7. Done: in `Plugins_proof`, that `run_rules` does what the rules of `Applied` say, and from it
   `RulesAnswer`, `SizeLimitIsLeast` and `NothingIsLeftOver`.
8. Done: in `Pop3_proof`, `StatAgrees`. What is left to TLC is listed at the end of section 4.
