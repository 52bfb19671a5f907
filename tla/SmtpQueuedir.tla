----------------------------- MODULE SmtpQueuedir -----------------------------
(***************************************************************************)
(* `mailfront smtp queuedir': an SMTP session that writes its mail to a    *)
(* directory another program empties, and may be killed, or lose the       *)
(* machine it runs on, at any point.                                       *)
(***************************************************************************)
EXTENDS Queuedir

CONSTANTS Chains, MaxRecipients, MaxBlocks, SessionAlarm, NeedsFile, HandlerFaults

VARIABLES pc, saw_mail, saw_rcpt, sess, be, rcpts, offer, mail

INSTANCE Smtp WITH
  backend_reset <- queuedir_reset,
  backend_sender <- queuedir_sender,
  backend_recipient <- queuedir_recipient,
  backend_data_start <- queuedir_data_start,
  backend_data_block <- queuedir_data_block,
  backend_message_end <- queuedir_message_end,
  backend_busy <- queuedir_message_end_goes_on

ASSUME SmtpQueuedirAssumption == SmtpParameters

Init == \E sync \in BOOLEAN : SmtpInit(QueuedirInit(sync))

Taken ==
  /\ be.fate # "down"
  /\ be' \in Takes(be)
  /\ UNCHANGED <<pc, saw_mail, saw_rcpt, sess, rcpts, offer, mail>>

\* SIGKILL: nothing is reset.
Killed ==
  /\ pc # "closed"
  /\ pc' = "closed"
  /\ be' = [be EXCEPT !.fate = "killed"]
  /\ mail' = MailCut
  /\ UNCHANGED <<saw_mail, saw_rcpt, sess, rcpts, offer>>

PowerLost ==
  /\ be.fate # "down"
  /\ pc' = "closed"
  /\ be' \in PowerFails(be)
  /\ mail' = IF pc = "closed" THEN mail ELSE MailCut
  /\ UNCHANGED <<saw_mail, saw_rcpt, sess, rcpts, offer>>

Next == SmtpNext \/ Taken \/ Killed \/ PowerLost

Spec == Init /\ [][Next]_vars

-----------------------------------------------------------------------------
(* Properties                                                              *)

TypeOK ==
  /\ pc \in {"command", "body", "block", "ending", "closed"}
  /\ saw_mail \in BOOLEAN /\ saw_rcpt \in BOOLEAN
  /\ sess \in Session
  /\ be \in QueuedirState
  /\ rcpts \in Nat
  /\ offer \in Offer
  /\ mail \in [Number -> Mail]

(***************************************************************************)
(* Every file that appears in new/ is, at every moment and after a power   *)
(* failure, a whole message in the documented format, and its envelope is  *)
(* what the client was told is accepted.                                   *)
(***************************************************************************)
NewIsWhole == StoredIsWhole(be, mail)

\* A message the client was told is accepted is in new/, or was taken from there.
AckedIsInNew == AcceptedIsStored(be, mail)

(***************************************************************************)
(* A message refused or cut short is not in new/, although its file may    *)
(* have been there for a moment.                                           *)
(***************************************************************************)
RefusedIsNotInNew == RefusedIsRemoved(be, mail)

(***************************************************************************)
(* The session implements Submission, with new/ and what was taken from    *)
(* there as the store, through kills, power failures and the consumer.     *)
(***************************************************************************)
Promise == INSTANCE Submission WITH
  told   <- [k \in Message |-> mail[k].verdict],
  stored <- StoredMessages(be),
  kept   <- Promised(be)

ImplementsSubmission == Promise!Spec

\* However a session ends, short of being killed, it leaves no file in tmp/.
TmpIsClean == NothingLeftInTmp(be, pc = "closed")

=============================================================================
