------------------------------- MODULE SmtpQmail -------------------------------
(***************************************************************************)
(* `mailfront smtp qmail': an SMTP session that hands its mail to          *)
(* qmail-queue processes, which run, fail and are killed concurrently with *)
(* it.                                                                     *)
(***************************************************************************)
EXTENDS QmailBackend

CONSTANTS Chains, MaxRecipients, MaxBlocks, SessionAlarm, NeedsFile, HandlerFaults

VARIABLES pc, saw_mail, saw_rcpt, sess, be, rcpts, offer, mail

INSTANCE Smtp WITH
  backend_reset <- reset,
  backend_sender <- do_sender,
  backend_recipient <- do_recipient,
  backend_data_start <- data_start,
  backend_data_block <- data_block,
  backend_message_end <- message_end,
  backend_busy <- message_end_goes_on

ASSUME SmtpQmailAssumption == SmtpParameters

Init == SmtpInit(QmailInit)

\* The processes of the session's messages, each on its own.
Moves(k, steps(_)) ==
  /\ be.qq[k].st = "run"
  /\ \E q \in steps(be.qq[k]) : be' = [be EXCEPT !.qq[k] = q]
  /\ UNCHANGED <<pc, saw_mail, saw_rcpt, sess, rcpts, offer, mail>>

QmailQueueProceeds(k) == Moves(k, Proceeds)
QmailQueueFails(k)    == Moves(k, Fails)

Next ==
  \/ SmtpNext
  \/ \E k \in Message : QmailQueueProceeds(k) \/ QmailQueueFails(k)

Spec == Init /\ [][Next]_vars

(***************************************************************************)
(* The session's own code runs on, qmail-queue runs on, and a client that  *)
(* stays silent within a message is timed out.  Nothing makes a client     *)
(* send anything, nor a process fail.                                      *)
(***************************************************************************)
Fairness ==
  /\ WF_vars(BlockHandled)
  /\ WF_vars(EndGoesOn)
  /\ WF_vars(pc = "body" /\ Leave)
  /\ WF_vars(Alarm)
  /\ \A k \in Message : WF_vars(QmailQueueProceeds(k))

FairSpec == Spec /\ Fairness

-----------------------------------------------------------------------------
(* Properties                                                              *)

TypeOK ==
  /\ pc \in {"command", "body", "block", "ending", "closed"}
  /\ saw_mail \in BOOLEAN /\ saw_rcpt \in BOOLEAN
  /\ sess \in Session
  /\ be \in QmailState
  /\ rcpts \in Nat
  /\ offer \in Offer
  /\ mail \in [Number -> Mail]

\* The envelope that stands for a transaction.
Envelope(o) ==
  [i \in 1 .. Len(o.to) + 1 |-> IF i = 1 THEN From(o.from[1]) ELSE To(o.to[i - 1])]

(***************************************************************************)
(* Whatever a client sends, in whatever order, qmail-queue only ever       *)
(* queues a message for the sender and the recipients, all of them and in  *)
(* order, that the client was told are accepted since its last MAIL.       *)
(***************************************************************************)
QueuedWasAccepted ==
  \A k \in Message : be.qq[k].queued =>
    /\ mail[k].offer.to # <<>>
    /\ be.qq[k].env = Append(Envelope(mail[k].offer), EndMark)

(***************************************************************************)
(* A message the client was told is accepted is in the queue, and all of   *)
(* it is.                                                                  *)
(***************************************************************************)
AcceptedIsQueued ==
  \A k \in Message : mail[k].verdict = "ack" => be.qq[k].queued

QueuedIsWhole ==
  \A k \in Message : be.qq[k].queued => be.qq[k].got = mail[k].blocks

(***************************************************************************)
(* Once a message is refused, or the session is lost before its body is    *)
(* complete, no qmail-queue left running puts it in the queue.             *)
(***************************************************************************)
RefusedStaysOut ==
  [][\A k \in Message :
       mail[k].verdict \in {"nak", "cut"} /\ ~ be.qq[k].queued => ~ be'.qq[k].queued]_vars

(***************************************************************************)
(* The session implements Submission, with the processes that have queued  *)
(* their messages as the store.  Nothing removes what is queued.           *)
(***************************************************************************)
Promise == INSTANCE Submission WITH
  told   <- [k \in Message |-> mail[k].verdict],
  stored <- {k \in Message : be.qq[k].queued},
  kept   <- TRUE

ImplementsSubmission == Promise!Spec

(***************************************************************************)
(* Every qmail-queue that is started comes to an end: none is left waiting *)
(* on a pipe that nobody will write to or close.                           *)
(***************************************************************************)
QmailQueueEnds ==
  \A k \in Message : (be.qq[k].st = "run") ~> (be.qq[k].st # "run")

(***************************************************************************)
(* A client that has sent a block, or the end of its message, is answered  *)
(* or cut off.  It need not be when the alarm is not armed: qmail-queue    *)
(* may die with a pipe full, and the write to it then waits for ever,      *)
(* since the session itself keeps the pipe's reading end open.  That is    *)
(* the only way to hang.                                                   *)
(***************************************************************************)
Waits == pc \in {"block", "ending"}

PipeFullOfDead ==
  \E k \in {be.epipe, be.mpipe} \cap Message :
    LET q == be.qq[k]
    IN  /\ q.st \in Statuses
        /\ q.msg - q.got = PipeSize \/ q.sent - q.read = PipeSize

Answered            == Waits ~> ~ Waits
AnsweredOrChildDead == Waits ~> (~ Waits \/ PipeFullOfDead)

(***************************************************************************)
(* plugin-api.html says of the sender hook that it is called exactly once  *)
(* per message.  HELO, EHLO and the end of DATA leave saw_mail and         *)
(* saw_rcpt set, so a message may start with no sender since the last.     *)
(***************************************************************************)
EveryMessageHasASender ==
  \A n \in Number : mail[n].verdict # "none" => mail[n].offer.from # <<>>

=============================================================================
