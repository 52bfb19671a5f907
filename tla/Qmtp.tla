--------------------------------- MODULE Qmtp ---------------------------------
(***************************************************************************)
(* A session of protocol-qmtp.c or protocol-qmqp.c, over the handlers of   *)
(* mailfront.c and any backend.  A package brings the body first, then the *)
(* sender, then the recipients, and is answered once, at its end: resp is  *)
(* the first error met, and after it no handler is called.                 *)
(***************************************************************************)
EXTENDS Messages

\* MaxMessages bounds the packages whose body is handed on.
CONSTANTS
  OnePackage,    \* QMQP: the session ends after one package
  Chains,        \* the answers the loaded plugins may give to a hook
  MaxRecipients, \* recipients accepted in one package (a bound)
  MaxBlocks,     \* blocks of one message (a bound)
  NeedsFile,     \* the values FLAG_NEED_FILE may have
  HandlerFaults,
  backend_reset(_), backend_sender(_, _), backend_recipient(_, _),
  backend_data_start(_, _, _), backend_data_block(_),
  backend_message_end(_, _, _), backend_busy(_)

INSTANCE Handlers

\* What is assumed of the parameters, by the modules that instantiate this one.
QmtpParameters ==
  /\ OnePackage \in BOOLEAN
  /\ Chains \subseteq Seq(Response)
  /\ MaxMessages \in Nat /\ MaxRecipients \in Nat /\ MaxBlocks \in Nat
  /\ NeedsFile \subseteq BOOLEAN

VARIABLES
  pc,    \* "start", "package", "body", "block", "recips", "ending" or "closed"
  resp,  \* the static of protocol-qmtp.c
  sess,  \* the container's state
  be,    \* the backend's
  mail   \* history: what became of each message

vars == <<pc, resp, sess, be, mail>>

QmtpInit(backendInit) ==
  /\ pc = "start"
  /\ resp = "none"
  /\ \E need \in NeedsFile : sess = NewSession(need)
  /\ be = backendInit
  /\ mail = [n \in Number |-> NoMail]

-----------------------------------------------------------------------------
\* The container and the backend are left as in outcome o.
Becomes(o) == sess' = o.sess /\ be' = o.be

Exits(o) ==
  /\ Becomes(exitfn(o.sess, o.be))
  /\ pc' = "closed"

\* The message of this package, if its body was handed on at all, gets verdict v.
Verdicts(v) ==
  mail' = [n \in Number |->
             IF n = sess.n /\ mail[n].verdict = "open"
             THEN [mail[n] EXCEPT !.verdict = v] ELSE mail[n]]

\* Mutant of Package: nothing is reset between packages.
PackageWithoutReset ==
  /\ pc = "start"
  /\ resp' = "none"
  /\ pc' = "package"
  /\ UNCHANGED <<sess, be, mail>>

\* A plugin's error in the reset refuses the package to come.
Package ==
  /\ pc = "start"
  /\ \E answers \in Chains :
       LET o == handle_reset(sess, be, answers)
       IN  Becomes(o) /\ resp' = o.resp
  /\ pc' = "package"
  /\ UNCHANGED mail

\* get_body, once the length of the body is read.
BodyStarts ==
  /\ pc = "package"
  /\ pc' = "body"
  /\ IF response_ok(resp)
     THEN /\ sess.n < MaxMessages
          /\ \E answers \in Chains : \E o \in handle_data_start(sess, be, answers) :
               /\ Becomes(o)
               /\ resp' = o.resp
               /\ mail' = [mail EXCEPT ![o.sess.n] = [NoMail EXCEPT !.verdict = "open"]]
     ELSE UNCHANGED <<resp, sess, be, mail>>

\* A block that is handed on; after an error the rest of the body is skipped.
BlockArrives ==
  /\ pc = "body" /\ response_ok(resp)
  /\ mail[sess.n].blocks < MaxBlocks
  /\ mail' = [mail EXCEPT ![sess.n].blocks = @ + 1]
  /\ pc' = "block"
  /\ UNCHANGED <<resp, sess, be>>

BlockHandled ==
  /\ pc = "block"
  /\ \E answers \in Chains : \E o \in handle_data_bytes(sess, be, answers) : Becomes(o)
  /\ pc' = "body"
  /\ UNCHANGED <<resp, mail>>

get_sender(a) ==
  /\ pc = "body"
  /\ pc' = "recips"
  /\ IF response_ok(resp)
     THEN \E answers \in Chains : \E o \in handle_sender(sess, be, a, answers) :
            /\ Becomes(o)
            /\ resp' = o.resp
            /\ mail' = IF response_ok(o.resp)
                       THEN [mail EXCEPT ![sess.n].offer.from = <<a>>] ELSE mail
     ELSE UNCHANGED <<resp, sess, be, mail>>

\* One recipient of the list; after an error the rest of it is skipped.
Recipient(a) ==
  /\ pc = "recips" /\ response_ok(resp)
  /\ Len(mail[sess.n].offer.to) < MaxRecipients
  /\ \E answers \in Chains : \E o \in handle_recipient(sess, be, a, answers) :
       /\ Becomes(o)
       /\ resp' = o.resp
       /\ mail' = IF response_ok(o.resp)
                  THEN [mail EXCEPT ![sess.n].offer.to = Append(@, a)] ELSE mail
  /\ UNCHANGED pc

\* The package is answered r; QMTP goes on to the next.
Responds(o) ==
  /\ resp' = o.resp
  /\ Verdicts(IF response_ok(o.resp) THEN "ack" ELSE "nak")
  /\ IF OnePackage THEN Exits(o) ELSE Becomes(o) /\ pc' = "start"

Answers(o) ==
  IF o.resp = "busy" THEN pc' = "ending" /\ Becomes(o) /\ UNCHANGED <<resp, mail>>
  ELSE Responds(o)

\* The end of the list, an empty one too.
PackageEnds ==
  /\ pc = "recips"
  /\ IF response_ok(resp)
     THEN \E answers \in Chains : \E o \in handle_message_end(sess, be, answers) : Answers(o)
     ELSE Responds(Outcome(sess, be, resp))

EndGoesOn ==
  /\ pc = "ending"
  /\ \E o \in handle_message_end_goes_on(sess, be) : Answers(o)

(***************************************************************************)
(* exit or die: the client's input ends, is malformed, or is not sent in   *)
(* time, or the answer cannot be sent.                                     *)
(***************************************************************************)
Leave ==
  /\ pc \in {"start", "package", "body", "recips"}
  /\ Exits(Outcome(sess, be, "none"))
  /\ Verdicts("cut")
  /\ UNCHANGED resp

\* The alarm of the main loop strikes wherever the session is.
Alarm ==
  /\ pc # "closed"
  /\ Exits(Outcome(sess, be, "none"))
  /\ Verdicts(IF pc = "ending" THEN "unknown" ELSE "cut")
  /\ UNCHANGED resp

QmtpNext ==
  \/ Package \/ BodyStarts \/ BlockArrives \/ BlockHandled
  \/ \E a \in Address : get_sender(a) \/ Recipient(a)
  \/ PackageEnds \/ EndGoesOn
  \/ Leave \/ Alarm

=============================================================================
