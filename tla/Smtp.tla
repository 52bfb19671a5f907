--------------------------------- MODULE Smtp ---------------------------------
(***************************************************************************)
(* One SMTP session of protocol-smtp.c, over the handlers of mailfront.c   *)
(* and any backend.  A command's handler is one action; DATA, which waits  *)
(* for the client, for the backend and for the process the backend has     *)
(* started, is one action for each stretch between two waits.              *)
(***************************************************************************)
EXTENDS Messages

\* MaxMessages bounds the DATA commands.
CONSTANTS
  Chains,        \* the answers the loaded plugins may give to a hook
  MaxRecipients, \* RCPT commands accepted after one MAIL or DATA (a bound)
  MaxBlocks,     \* blocks of one message (a bound)
  SessionAlarm,  \* SESSION_TIMEOUT is set: set_timeout arms the alarm
  NeedsFile,     \* the values FLAG_NEED_FILE may have
  HandlerFaults,
  backend_reset(_), backend_sender(_, _), backend_recipient(_, _),
  backend_data_start(_, _, _), backend_data_block(_),
  backend_message_end(_, _, _), backend_busy(_)

INSTANCE Handlers

\* What is assumed of the parameters, by the modules that instantiate this one.
SmtpParameters ==
  /\ Chains \subseteq Seq(Response)
  /\ MaxMessages \in Nat /\ MaxRecipients \in Nat /\ MaxBlocks \in Nat
  /\ SessionAlarm \in BOOLEAN
  /\ NeedsFile \subseteq BOOLEAN

VARIABLES
  pc,        \* "command", "body", "block", "ending" or "closed"
  saw_mail, saw_rcpt, \* the statics of protocol-smtp.c
  sess,      \* the container's state
  be,        \* the backend's
  rcpts,     \* recipients accepted since the last MAIL or DATA (a bound)
  offer,     \* history: what stands accepted (see below)
  mail       \* history: what became of each message

vars == <<pc, saw_mail, saw_rcpt, sess, be, rcpts, offer, mail>>

(***************************************************************************)
(* offer is the mail transaction: the sender the last MAIL accepted and    *)
(* the recipients accepted since, or NoOffer when there is none: at the    *)
(* start, after HELO, EHLO and RSET, and once a message is answered.       *)
(***************************************************************************)
SmtpInit(backendInit) ==
  /\ pc = "command"
  /\ saw_mail = FALSE /\ saw_rcpt = FALSE
  /\ \E need \in NeedsFile : sess = NewSession(need)
  /\ be = backendInit
  /\ rcpts = 0
  /\ offer = NoOffer
  /\ mail = [n \in Number |-> NoMail]

-----------------------------------------------------------------------------
\* The container and the backend are left as in outcome o.
Becomes(o) == sess' = o.sess /\ be' = o.be

\* The session ends: exit, or main returning.
Exits(o) ==
  /\ Becomes(exitfn(o.sess, o.be))
  /\ pc' = "closed"

\* Mutant of HELO: nothing is reset.
HELOWithoutReset ==
  /\ pc = "command"
  /\ offer' = NoOffer
  /\ UNCHANGED <<pc, saw_mail, saw_rcpt, sess, be, rcpts, mail>>

(***************************************************************************)
(* HELO and EHLO reset the container and the backend, and leave saw_mail   *)
(* and saw_rcpt as they are, whatever the reset returns.                   *)
(***************************************************************************)
HELO ==
  /\ pc = "command"
  /\ \E answers \in Chains : Becomes(handle_reset(sess, be, answers))
  /\ offer' = NoOffer
  /\ UNCHANGED <<pc, saw_mail, saw_rcpt, rcpts, mail>>

(***************************************************************************)
(* do_reset, at the head of MAIL and RSET: a plugin's error in the reset   *)
(* ends the session.                                                       *)
(***************************************************************************)
ResetFails ==
  /\ pc = "command"
  /\ \E answers \in Chains :
       LET o == handle_reset(sess, be, answers)
       IN  ~ response_ok(o.resp) /\ Exits(o)
  /\ UNCHANGED <<saw_mail, saw_rcpt, rcpts, offer, mail>>

RSET ==
  /\ pc = "command"
  /\ \E answers \in Chains :
       LET o == handle_reset(sess, be, answers)
       IN  response_ok(o.resp) /\ Becomes(o)
  /\ saw_mail' = FALSE /\ saw_rcpt' = FALSE
  /\ rcpts' = 0 /\ offer' = NoOffer
  /\ UNCHANGED <<pc, mail>>

\* A syntax error in the address leaves what RSET leaves.
MAIL(a) ==
  /\ pc = "command"
  /\ \E answers \in Chains, resets \in Chains :
       LET r == handle_reset(sess, be, resets)
       IN  /\ response_ok(r.resp)
           /\ \E o \in handle_sender(r.sess, r.be, a, answers) :
                /\ Becomes(o)
                /\ saw_mail' = response_ok(o.resp)
                /\ offer' = IF response_ok(o.resp)
                            THEN [from |-> <<a>>, to |-> <<>>] ELSE NoOffer
  /\ saw_rcpt' = FALSE
  /\ rcpts' = 0
  /\ UNCHANGED <<pc, mail>>

RCPT(a) ==
  /\ pc = "command" /\ saw_mail
  /\ rcpts < MaxRecipients
  /\ \E answers \in Chains : \E o \in handle_recipient(sess, be, a, answers) :
       /\ Becomes(o)
       /\ saw_rcpt' = (saw_rcpt \/ response_ok(o.resp))
       /\ rcpts' = rcpts + 1
       /\ offer' = IF response_ok(o.resp) /\ offer # NoOffer
                   THEN [offer EXCEPT !.to = Append(@, a)] ELSE offer
  /\ UNCHANGED <<pc, saw_mail, mail>>

\* DATA, up to the reply to it.
DATA ==
  /\ pc = "command" /\ saw_mail /\ saw_rcpt
  /\ sess.n < MaxMessages
  /\ \E answers \in Chains : \E o \in handle_data_start(sess, be, answers) :
       /\ Becomes(o)
       /\ pc' = IF response_ok(o.resp) THEN "body" ELSE "command"
       /\ mail' = [mail EXCEPT ![o.sess.n] =
            [offer |-> offer, blocks |-> 0,
             verdict |-> IF response_ok(o.resp) THEN "open" ELSE "nak"]]
       /\ rcpts' = 0
  /\ UNCHANGED <<saw_mail, saw_rcpt, offer>>

\* copy_body has a block together and hands it on.
BlockArrives ==
  /\ pc = "body" /\ mail[sess.n].blocks < MaxBlocks
  /\ mail' = [mail EXCEPT ![sess.n].blocks = @ + 1]
  /\ pc' = "block"
  /\ UNCHANGED <<saw_mail, saw_rcpt, sess, be, rcpts, offer>>

BlockHandled ==
  /\ pc = "block"
  /\ \E answers \in Chains : \E o \in handle_data_bytes(sess, be, answers) : Becomes(o)
  /\ pc' = "body"
  /\ UNCHANGED <<saw_mail, saw_rcpt, rcpts, offer, mail>>

\* What handle_message_end returns is the answer to the message.
Answers(o) ==
  /\ Becomes(o)
  /\ IF o.resp = "busy"
     THEN pc' = "ending" /\ UNCHANGED <<offer, mail>>
     ELSE /\ pc' = "command"
          /\ offer' = NoOffer
          /\ mail' = [mail EXCEPT ![sess.n].verdict =
                       IF response_ok(o.resp) THEN "ack" ELSE "nak"]
  /\ UNCHANGED <<saw_mail, saw_rcpt, rcpts>>

EndOfBody ==
  /\ pc = "body"
  /\ \E answers \in Chains : \E o \in handle_message_end(sess, be, answers) : Answers(o)

EndGoesOn ==
  /\ pc = "ending"
  /\ \E o \in handle_message_end_goes_on(sess, be) : Answers(o)

\* The session ends in the middle of a message.
MailCut ==
  IF pc = "command" THEN mail
  ELSE [mail EXCEPT ![sess.n].verdict = IF pc = "ending" THEN "unknown" ELSE "cut"]

(***************************************************************************)
(* QUIT, the end of the client's input, its silence past the input         *)
(* timeout, too many unknown commands, or a reply that cannot be sent.     *)
(***************************************************************************)
Leave ==
  /\ pc \in {"command", "body"}
  /\ Exits(Outcome(sess, be, "none"))
  /\ mail' = MailCut
  /\ UNCHANGED <<saw_mail, saw_rcpt, rcpts, offer>>

\* handle_alarm: exit(0) wherever the session is.
Alarm ==
  /\ SessionAlarm
  /\ pc # "closed"
  /\ Exits(Outcome(sess, be, "none"))
  /\ mail' = MailCut
  /\ UNCHANGED <<saw_mail, saw_rcpt, rcpts, offer>>

SmtpNext ==
  \/ HELO \/ ResetFails \/ RSET
  \/ \E a \in Address : MAIL(a) \/ RCPT(a)
  \/ DATA \/ BlockArrives \/ BlockHandled \/ EndOfBody \/ EndGoesOn
  \/ Leave \/ Alarm

=============================================================================
