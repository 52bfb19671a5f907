----------------------------- MODULE QmtpQueuedir -----------------------------
(***************************************************************************)
(* `mailfront qmtp queuedir', or qmqp: the backend gets the body before it *)
(* has a sender to name a file for, and keeps it in a scratch file.        *)
(***************************************************************************)
EXTENDS Queuedir

CONSTANTS OnePackage, Chains, MaxRecipients, MaxBlocks, NeedsFile, HandlerFaults

VARIABLES pc, resp, sess, be, mail

INSTANCE Qmtp WITH
  backend_reset <- queuedir_reset,
  backend_sender <- queuedir_sender,
  backend_recipient <- queuedir_recipient,
  backend_data_start <- queuedir_data_start,
  backend_data_block <- queuedir_data_block,
  backend_message_end <- queuedir_message_end,
  backend_busy <- queuedir_message_end_goes_on

ASSUME QmtpQueuedirAssumption == QmtpParameters

Init == \E sync \in BOOLEAN : QmtpInit(QueuedirInit(sync))

Taken ==
  /\ be.fate # "down"
  /\ be' \in Takes(be)
  /\ UNCHANGED <<pc, resp, sess, mail>>

\* SIGKILL: nothing is reset.
Killed ==
  /\ pc # "closed"
  /\ pc' = "closed"
  /\ be' = [be EXCEPT !.fate = "killed"]
  /\ Verdicts(IF pc = "ending" THEN "unknown" ELSE "cut")
  /\ UNCHANGED <<resp, sess>>

PowerLost ==
  /\ be.fate # "down"
  /\ pc' = "closed"
  /\ be' \in PowerFails(be)
  /\ Verdicts(IF pc = "ending" THEN "unknown" ELSE "cut")
  /\ UNCHANGED <<resp, sess>>

Next == QmtpNext \/ Taken \/ Killed \/ PowerLost

Spec == Init /\ [][Next]_vars

-----------------------------------------------------------------------------
(* Properties                                                              *)

TypeOK ==
  /\ pc \in {"start", "package", "body", "block", "recips", "ending", "closed"}
  /\ resp \in Response
  /\ sess \in Session
  /\ be \in QueuedirState
  /\ mail \in [Number -> Mail]

\* A file as this order of calls writes it: body blocks right behind the envelope.
WithBody(o, blocks) == Envelope(o) \o [i \in 1 .. blocks |-> Block]

(***************************************************************************)
(* Every file that appears in new/ starts with the envelope the plugins    *)
(* accepted for that very package, whatever an earlier package left in the *)
(* backend, and nothing but its body follows.                              *)
(***************************************************************************)
NewHasItsEnvelope ==
  Promised(be) => \A f \in Stored(be) :
    \E blocks \in 0 .. mail[f.of].blocks : f.data = WithBody(mail[f.of].offer, blocks)

\* A package answered as accepted is in new/, or was taken from there.
AckedIsInNew == AcceptedIsStored(be, mail)

\* A package refused or cut short leaves nothing in new/.
RefusedIsNotInNew == RefusedIsRemoved(be, mail)

(***************************************************************************)
(* The session implements Submission, with new/ and what was taken from    *)
(* there as the store, through kills, power failures and the consumer.     *)
(***************************************************************************)
Promise == INSTANCE Submission WITH
  told   <- [k \in Message |-> mail[k].verdict],
  stored <- StoredMessages(be),
  kept   <- Promised(be)

ImplementsSubmission == Promise!Spec

\* However a session ends, short of being killed, it leaves no file in tmp/.
TmpIsClean == NothingLeftInTmp(be, pc = "closed")

(***************************************************************************)
(* backend-queuedir.html says that a NUL byte ends the envelope of every   *)
(* file.  It is written by data_start, which here comes before the sender. *)
(***************************************************************************)
NewHasFormat == StoredIsWhole(be, mail)

(***************************************************************************)
(* backend-queuedir.html says that a file ends with the full message data, *)
(* and plugin-template.c that an error from data_block stops the message.  *)
(* So a package answered as accepted is stored with all of its body.  The  *)
(* container ignores what the backend's data_block returns.                *)
(***************************************************************************)
AckedIsWhole ==
  Promised(be) => \A f \in Stored(be) :
    mail[f.of].verdict = "ack" => f.data = WithBody(mail[f.of].offer, mail[f.of].blocks)

=============================================================================
