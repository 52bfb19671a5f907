-------------------------- MODULE SmtpQueuedir_proof --------------------------
(***************************************************************************)
(* An SMTP session over the queue directory, for any plugins, addresses,   *)
(* messages, failing calls and moments of a kill or a power failure.       *)
(***************************************************************************)
EXTENDS SmtpQueuedir, Queuedir_proof, Responses_proof

-----------------------------------------------------------------------------
(* The invariant, at point p of a session with the container's state s,    *)
(* the backend's b, the offer o that stands and the history m              *)

\* What the file of each message may hold.
Formats(m) == [k \in Number |-> {Format(m[k])}]

\* The message whose file is linked and not yet answered.
Now(p, s, b) == IF p = "ending" /\ Linking(b) THEN s.n ELSE 0

\* The message that is arriving, without the block that is not handed on yet.
Handed(p, s, m) ==
  IF p = "block" THEN [m[s.n] EXCEPT !.blocks = @ - 1] ELSE m[s.n]

\* No message was started beyond s.n.
Fresh(s, m) == \A k \in Number : k > s.n => m[k].verdict = "none"

\* The message that is arriving has no verdict, and the backend knows it.
Arriving(s, b, m) == s.n \in Number /\ m[s.n].verdict = "open" /\ b.n = s.n

\* After MAIL, the file under way holds what the client was told is accepted;
\* HELO takes it away, and then no file comes of what follows.
EnvelopeIsOffer(b, o) ==
  Writes(b, {Envelope(o)}) /\ (b.dlen => o.from # <<>>)

\* While the message arrives, the file holds what came of it, or is gone.
BodyIsWritten(p, s, b, m) ==
  /\ Writes(b, {Format(Handed(p, s, m))})
  /\ b.dlen => ~ b.tmpfd /\ response_ok(s.dresp)
  /\ p = "block" => m[s.n].blocks > 0

Places == {"command", "body", "block", "ending", "closed"}

Holds(p, sm, s, b, o, m) ==
  /\ p \in Places /\ sm \in BOOLEAN /\ s \in Session /\ o \in Offer /\ m \in [Number -> Mail]
  /\ Directory(b) /\ Files(b, m, Formats(m), Now(p, s, b)) /\ Fresh(s, m)
  /\ p # "closed" => Live(b)
  /\ p = "closed" /\ b.fate = "up" => b.tmp = {}
  /\ p \in {"command", "body", "block"} => b.phase = "idle"
  /\ p = "command" /\ sm => EnvelopeIsOffer(b, o)
  /\ p \in {"body", "block", "ending"} => Arriving(s, b, m)
  /\ p \in {"body", "block"} => BodyIsWritten(p, s, b, m)
  /\ p = "ending" => b.phase # "idle" /\ EndIsSafe(b, Formats(m))

Inductive ==
  /\ saw_rcpt \in BOOLEAN /\ rcpts \in Nat
  /\ Holds(pc, saw_mail, sess, be, offer, mail)

-----------------------------------------------------------------------------
(* The handlers                                                            *)

\* What the parameters' assumption gives.
LEMMA Parameters ==
  /\ MaxMessages \in Nat /\ Number = Message /\ 0 \notin Number
  /\ \A answers \in Chains : answers \in Seq(Response)
  BY SmtpQueuedirAssumption DEF SmtpParameters, Number, Message

\* What becomes of the container at a reset.
LEMMA CloseFileType ==
  ASSUME NEW s \in Session
  PROVE  CloseFile(s) \in Session /\ CloseFile(s).n = s.n /\ CloseFile(s).dresp = s.dresp
  BY DEF CloseFile, Session

\* Every reset of the container resets the backend, whatever the plugins answer.
LEMMA ResetHandled ==
  ASSUME NEW s \in Session, NEW b, NEW answers, NEW r
  PROVE  /\ LET o == handle_reset(s, b, answers)
            IN  o.sess \in Session /\ o.sess.n = s.n /\ o.be = queuedir_reset(b)
         /\ LET o == ResetAnd(s, b, r)
            IN  /\ o.sess \in Session /\ o.sess.n = s.n /\ o.sess.dresp = s.dresp
                /\ o.be = queuedir_reset(b) /\ o.resp = r
         /\ LET o == exitfn(s, b)
            IN  o.sess \in Session /\ o.sess.n = s.n /\ o.be = queuedir_reset(b)
  BY CloseFileType DEF handle_reset, ResetAnd, exitfn, Outcome

\* A sender is accepted when the chain and the backend accept it.
LEMMA SenderHandled ==
  ASSUME NEW s, NEW b, NEW a, NEW answers, NEW o \in handle_sender(s, b, a, answers)
  PROVE  /\ o.sess = s
         /\ \/ o.be = b /\ ~ response_ok(o.resp)
            \/ \E p \in queuedir_sender(b, a) :
                 o.be = p.be /\ (response_ok(o.resp) <=> response_ok(p.resp))
<1> DEFINE resp == MODULE_CALL("none", answers)
<1>1. CASE o = Outcome(s, b, "perm")
  BY <1>1 DEF Outcome, response_ok
<1>2. CASE ~ response_ok(resp) /\ o = Outcome(s, b, resp)
  BY <1>2 DEF Outcome
<1>3. CASE response_ok(resp) /\ \E p \in queuedir_sender(b, a) :
             o = Outcome(s, p.be, IF response_ok(p.resp) THEN resp ELSE p.resp)
  <2> HIDE DEF resp
  <2> QED BY <1>3 DEF Outcome
<1> QED BY <1>1, <1>2, <1>3 DEF handle_sender

\* So is a recipient.
LEMMA RecipientHandled ==
  ASSUME NEW s, NEW b, NEW a, NEW answers, NEW o \in handle_recipient(s, b, a, answers)
  PROVE  /\ o.sess = s
         /\ \/ o.be = b /\ ~ response_ok(o.resp)
            \/ \E p \in queuedir_recipient(b, a) :
                 o.be = p.be /\ (response_ok(o.resp) <=> response_ok(p.resp))
<1> DEFINE resp == MODULE_CALL("none", answers)
<1>1. CASE o = Outcome(s, b, "perm")
  BY <1>1 DEF Outcome, response_ok
<1>2. CASE ~ response_ok(resp) /\ o = Outcome(s, b, resp)
  BY <1>2 DEF Outcome
<1>3. CASE response_ok(resp) /\ \E p \in queuedir_recipient(b, a) :
             o = Outcome(s, p.be, IF response_ok(p.resp) THEN resp ELSE p.resp)
  <2> HIDE DEF resp
  <2> QED BY <1>3 DEF Outcome
<1> QED BY <1>1, <1>2, <1>3 DEF handle_recipient

\* A message is started when the backend and the chain accept it; when either
\* does not, it is reset, unless no scratch file could be made for it.
LEMMA DataStartHandled ==
  ASSUME NEW s \in Session, s.n < MaxMessages, NEW b, NEW answers,
         NEW o \in handle_data_start(s, b, answers)
  PROVE  /\ o.sess \in Session /\ o.sess.n = s.n + 1
         /\ \/ o.be = b /\ ~ response_ok(o.resp)
            \/ \E fd : \E p \in queuedir_data_start(b, fd, s.n + 1) :
                 \/ o.be = queuedir_reset(p.be) /\ ~ response_ok(o.resp)
                 \/ /\ o.be = p.be /\ response_ok(o.resp) /\ response_ok(p.resp)
                    /\ response_ok(o.sess.dresp)
<1> DEFINE t      == [CloseFile(s) EXCEPT !.n = @ + 1]
           opened == [t EXCEPT !.fd = t.need, !.dresp = "none"]
           resp(p) == MODULE_CALL(p.resp, answers)
           then(p) == IF ~ response_ok(p.resp)
                      THEN ResetAnd([opened EXCEPT !.dresp = p.resp], p.be, p.resp)
                      ELSE IF ~ response_ok(resp(p)) THEN ResetAnd(opened, p.be, resp(p))
                      ELSE Outcome(opened, p.be, resp(p))
<1>1. t \in Session /\ t.n = s.n + 1
  <2> DEFINE c == CloseFile(s)
  <2>1. c \in Session /\ c.n = s.n
    BY CloseFileType
  <2> HIDE DEF c
  <2>2. s.n + 1 \in 0 .. MaxMessages
    BY SmtpQueuedirAssumption DEF Session, SmtpParameters
  <2>3. [c EXCEPT !.n = c.n + 1] \in Session /\ [c EXCEPT !.n = c.n + 1].n = c.n + 1
    BY <2>1, <2>2 DEF Session
  <2> QED BY <2>1, <2>3 DEF c
<1> HIDE DEF t
<1>2. opened \in Session /\ opened.n = s.n + 1 /\ opened.dresp = "none"
  BY <1>1 DEF Session
<1> HIDE DEF opened
<1>3. CASE o = Outcome(t, b, "temp")
  BY <1>1, <1>3 DEF Outcome, response_ok
<1>4. ASSUME NEW p \in queuedir_data_start(b, opened.fd, opened.n), o = then(p),
             p.resp \in {"none", "temp"}
      PROVE  /\ o.sess \in Session /\ o.sess.n = s.n + 1
             /\ \/ o.be = queuedir_reset(p.be) /\ ~ response_ok(o.resp)
                \/ /\ o.be = p.be /\ response_ok(o.resp) /\ response_ok(p.resp)
                   /\ response_ok(o.sess.dresp)
  <2>1. response_ok("none") /\ ~ response_ok("temp")
    BY DEF response_ok
  <2>2. CASE p.resp = "temp"
    <3> DEFINE u == [opened EXCEPT !.dresp = "temp"]
    <3>1. u \in Session /\ u.n = s.n + 1
      BY <1>2 DEF Session
    <3>2. o = ResetAnd(u, p.be, "temp")
      BY <1>4, <2>1, <2>2
    <3> HIDE DEF u
    <3> QED BY <2>1, <3>1, <3>2, ResetHandled
  <2>3. CASE p.resp = "none" /\ ~ response_ok(resp(p))
    <3>1. o = ResetAnd(opened, p.be, resp(p))
      BY <1>4, <2>1, <2>3
    <3> HIDE DEF resp
    <3> QED BY <1>2, <2>3, <3>1, ResetHandled
  <2>4. CASE p.resp = "none" /\ response_ok(resp(p))
    <3>1. o = Outcome(opened, p.be, resp(p))
      BY <1>4, <2>1, <2>4
    <3> HIDE DEF resp
    <3> QED BY <1>2, <2>1, <2>4, <3>1 DEF Outcome
  <2> QED BY <1>4, <2>2, <2>3, <2>4
<1>5. \A p \in queuedir_data_start(b, opened.fd, opened.n) : p.resp \in {"none", "temp"}
  BY DEF queuedir_data_start, Puts, MayFail, Returns
<1>6. o = Outcome(t, b, "temp")
      \/ \E p \in queuedir_data_start(b, opened.fd, opened.n) : o = then(p)
  BY DEF handle_data_start, t, opened
<1> HIDE DEF then
<1> QED BY <1>2, <1>3, <1>4, <1>5, <1>6

\* A block goes to the backend, until an error is met, which resets the message.
LEMMA DataBytesHandled ==
  ASSUME NEW s \in Session, NEW b, NEW answers \in Seq(Response),
         NEW o \in handle_data_bytes(s, b, answers)
  PROVE  /\ o.sess \in Session /\ o.sess.n = s.n
         /\ \/ o.be = b /\ ~ response_ok(s.dresp) /\ o.sess.dresp = s.dresp
            \/ o.be = queuedir_reset(b)
            \/ \E p \in queuedir_data_block(b) :
                 \/ o.be = queuedir_reset(p.be)
                 \/ o.be = p.be /\ o.sess.dresp = s.dresp
<1> DEFINE resp == FirstError(answers)
<1>1. CASE ~ response_ok(s.dresp) /\ o = Outcome(s, b, "none")
  BY <1>1 DEF Outcome
<1>2. CASE ~ response_ok(resp) /\ o = ResetAnd([s EXCEPT !.dresp = resp], b, "none")
  <2>1. resp \in {"temp", "perm"}
    BY <1>2, FirstErrorType DEF response_ok
  <2> HIDE DEF resp
  <2> DEFINE u == [s EXCEPT !.dresp = resp]
  <2>2. u \in Session /\ u.n = s.n
    BY <2>1 DEF Session
  <2>3. o = ResetAnd(u, b, "none")
    BY <1>2
  <2> HIDE DEF u
  <2> QED BY <2>2, <2>3, ResetHandled
<1>3. ASSUME NEW p \in queuedir_data_block(b),
             \/ o = Outcome(s, p.be, "none")
             \/ o = Outcome([s EXCEPT !.file = @ + 1], p.be, "none")
             \/ o = ResetAnd([s EXCEPT !.dresp = "temp"], p.be, "none")
      PROVE  /\ o.sess \in Session /\ o.sess.n = s.n
             /\ \/ o.be = queuedir_reset(p.be)
                \/ o.be = p.be /\ o.sess.dresp = s.dresp
  <2>1. CASE o = Outcome(s, p.be, "none")
    BY <2>1 DEF Outcome
  <2>2. CASE o = Outcome([s EXCEPT !.file = @ + 1], p.be, "none")
    <3> DEFINE u == [s EXCEPT !.file = @ + 1]
    <3>1. u \in Session /\ u.n = s.n /\ u.dresp = s.dresp
      BY DEF Session
    <3>2. o = Outcome(u, p.be, "none")
      BY <2>2
    <3> HIDE DEF u
    <3> QED BY <3>1, <3>2 DEF Outcome
  <2>3. CASE o = ResetAnd([s EXCEPT !.dresp = "temp"], p.be, "none")
    <3> DEFINE u == [s EXCEPT !.dresp = "temp"]
    <3>1. u \in Session /\ u.n = s.n
      BY DEF Session
    <3>2. o = ResetAnd(u, p.be, "none")
      BY <2>3
    <3> HIDE DEF u
    <3> QED BY <3>1, <3>2, ResetHandled
  <2> QED BY <1>3, <2>1, <2>2, <2>3
<1>4. \/ ~ response_ok(s.dresp) /\ o = Outcome(s, b, "none")
      \/ ~ response_ok(resp) /\ o = ResetAnd([s EXCEPT !.dresp = resp], b, "none")
      \/ \E p \in queuedir_data_block(b) :
           \/ o = Outcome(s, p.be, "none")
           \/ o = Outcome([s EXCEPT !.file = @ + 1], p.be, "none")
           \/ o = ResetAnd([s EXCEPT !.dresp = "temp"], p.be, "none")
  BY DEF handle_data_bytes
<1> QED BY <1>1, <1>2, <1>3, <1>4

\* The backend's answer ends the message, and an error resets it, unless it goes on.
LEMMA Ended ==
  ASSUME NEW s \in Session, NEW b, NEW r \in {"busy", "none", "temp", "perm"}
  PROVE  LET o == MessageEnded(s, b, r)
         IN  /\ o.sess \in Session /\ o.sess.n = s.n /\ o.resp = r
             /\ o.be = IF response_ok(r) THEN b ELSE queuedir_reset(b)
  BY CloseFileType, ResetHandled DEF MessageEnded, Outcome, response_ok

\* The end of a message: an error met before answers it, and one of the chain
\* resets it and answers it, before the backend is asked.
LEMMA MessageEndHandled ==
  ASSUME NEW s \in Session, NEW b, NEW answers, NEW o \in handle_message_end(s, b, answers)
  PROVE  /\ o.sess \in Session /\ o.sess.n = s.n
         /\ \/ o.be = b /\ ~ response_ok(s.dresp) /\ ~ response_ok(o.resp) /\ o.resp # "busy"
            \/ o.be = queuedir_reset(b) /\ ~ response_ok(o.resp) /\ o.resp # "busy"
            \/ \E p \in queuedir_message_end(b, s.fd, s.file) :
                 /\ o.resp = p.resp
                 /\ o.be = IF response_ok(p.resp) THEN p.be ELSE queuedir_reset(p.be)
<1> DEFINE resp == MODULE_CALL("none", answers)
<1>1. CASE ~ response_ok(s.dresp) /\ o = Outcome(s, b, s.dresp)
  BY <1>1 DEF Outcome, response_ok
<1>2. CASE ~ response_ok(resp) /\ o = ResetAnd(s, b, resp)
  <2>1. resp # "busy"
    BY <1>2 DEF response_ok
  <2> HIDE DEF resp
  <2> QED BY <1>2, <2>1, ResetHandled
<1>3. ASSUME NEW p \in queuedir_message_end(b, s.fd, s.file), o = MessageEnded(s, p.be, p.resp)
      PROVE  /\ o.sess \in Session /\ o.sess.n = s.n /\ o.resp = p.resp
             /\ o.be = IF response_ok(p.resp) THEN p.be ELSE queuedir_reset(p.be)
  <2>1. p.resp \in {"busy", "none", "temp", "perm"}
    BY DEF queuedir_message_end, Step, Puts, MayFail, Returns, response_ok
  <2> QED BY <1>3, <2>1, Ended
<1> QED BY <1>1, <1>2, <1>3 DEF handle_message_end

-----------------------------------------------------------------------------
(* What an action has to show                                              *)

\* Between messages.
LEMMA CommandHolds ==
  ASSUME NEW sm \in BOOLEAN, NEW s \in Session, NEW b, NEW o \in Offer, NEW m \in [Number -> Mail],
         Directory(b), Live(b), b.phase = "idle", Files(b, m, Formats(m), 0), Fresh(s, m),
         sm => EnvelopeIsOffer(b, o)
  PROVE  Holds("command", sm, s, b, o, m)
  BY DEF Holds, Places, Now

\* After the end.
LEMMA ClosedHolds ==
  ASSUME NEW sm \in BOOLEAN, NEW s \in Session, NEW b, NEW o \in Offer, NEW m \in [Number -> Mail],
         Directory(b), b.fate = "up" => b.tmp = {}, Files(b, m, Formats(m), 0), Fresh(s, m)
  PROVE  Holds("closed", sm, s, b, o, m)
  BY DEF Holds, Places, Now

\* While a message arrives.
LEMMA BodyHolds ==
  ASSUME NEW p \in {"body", "block"},
         NEW sm \in BOOLEAN, NEW s \in Session, NEW b, NEW o \in Offer, NEW m \in [Number -> Mail],
         Directory(b), Live(b), b.phase = "idle", Files(b, m, Formats(m), 0), Fresh(s, m),
         Arriving(s, b, m), BodyIsWritten(p, s, b, m)
  PROVE  Holds(p, sm, s, b, o, m)
  BY DEF Holds, Places, Now

\* What the invariant says while the session lasts.
LEMMA WhileOpen ==
  ASSUME Inductive, pc # "closed"
  PROVE  /\ saw_mail \in BOOLEAN /\ sess \in Session /\ offer \in Offer /\ mail \in [Number -> Mail]
         /\ be \in QueuedirState /\ Directory(be) /\ Live(be) /\ Fresh(sess, mail)
         /\ Files(be, mail, Formats(mail), Now(pc, sess, be))
         /\ Current(be, mail, Now(pc, sess, be))
         /\ pc # "ending" => Now(pc, sess, be) = 0 /\ ~ Linking(be) /\ be.phase = "idle"
  BY DEF Inductive, Holds, Places, Directory, Now, Current, Arriving, Linking

\* A reset then leaves nothing of the message that is not answered.
LEMMA ResetIsClear ==
  ASSUME Inductive, pc # "closed"
  PROVE  LET c == queuedir_reset(be)
         IN  /\ Clear(c, mail, Formats(mail), Now(pc, sess, be)) /\ c.n = be.n
             /\ c \in QueuedirState
<1>1. LET c == queuedir_reset(be)
      IN  Clear(c, mail, Formats(mail), Now(pc, sess, be)) /\ c.n = be.n
  BY WhileOpen, ResetWorks
<1> QED BY <1>1 DEF Clear, Directory

\* With no file under way nothing is asked of it.
LEMMA NothingIsWritten ==
  ASSUME NEW b, Directory(b), ~ b.tlen, ~ b.dlen
  PROVE  /\ \A D : Writes(b, D)
         /\ \A o : EnvelopeIsOffer(b, o)
<1>1. b.tlen = b.dlen
  BY DEF Directory, QueuedirState
<1> QED BY <1>1 DEF Writes, EnvelopeIsOffer

\* The history with another verdict on message n.
Answered(m, n, v) == [m EXCEPT ![n].verdict = v]

LEMMA VerdictGiven ==
  ASSUME NEW m \in [Number -> Mail], NEW n \in Number, NEW v \in Verdict
  PROVE  LET m2 == Answered(m, n, v)
         IN  /\ m2 \in [Number -> Mail] /\ Formats(m2) = Formats(m)
             /\ m2[n].verdict = v
             /\ \A k \in Number : k # n => m2[k] = m[k]
<1> DEFINE m2 == Answered(m, n, v)
           x  == [m[n] EXCEPT !.verdict = v]
<1>1. x \in Mail /\ x.verdict = v /\ x.offer = m[n].offer /\ x.blocks = m[n].blocks
  BY DEF Mail
<1>2. m2 = [m EXCEPT ![n] = x]
  BY DEF Answered
<1> HIDE DEF x, m2
<1>3. /\ m2 \in [Number -> Mail] /\ m2[n] = x
      /\ \A k \in Number : k # n => m2[k] = m[k]
  BY <1>1, <1>2
<1>4. \A k \in Number : Format(m2[k]) = Format(m[k])
  BY <1>1, <1>3 DEF Format
<1>5. Formats(m2) = Formats(m)
  BY <1>4 DEF Formats
<1> QED BY <1>1, <1>3, <1>5 DEF m2

(***************************************************************************)
(* When the session ends, the message it was in the middle of is cut short *)
(* or its fate unknown, whatever became of the files meanwhile.            *)
(***************************************************************************)
LEMMA CutIsSettled ==
  ASSUME Inductive, pc # "closed", NEW c, Directory(c),
         Files(c, mail, Formats(mail), Now(pc, sess, be))
  PROVE  /\ MailCut \in [Number -> Mail] /\ Fresh(sess, MailCut)
         /\ Files(c, MailCut, Formats(MailCut), 0)
<1>1. c \in QueuedirState
  BY DEF Directory
<1>2. CASE pc = "command"
  BY <1>2, WhileOpen DEF MailCut
<1>3. CASE pc # "command"
  <2>1. PICK n, v, m2 :
          /\ n = sess.n /\ v = (IF pc = "ending" THEN "unknown" ELSE "cut")
          /\ m2 = Answered(mail, n, v) /\ MailCut = m2
    BY <1>3 DEF MailCut, Answered
  <2>2. n \in Number /\ n \in Message /\ mail[n].verdict = "open"
    BY <1>3, <2>1, Parameters DEF Inductive, Holds, Places, Arriving
  <2>3. v \in Verdict /\ v # "ack" /\ v # "nak"
    BY <2>1 DEF Verdict
  <2>4. /\ m2 \in [Number -> Mail] /\ Formats(m2) = Formats(mail) /\ m2[n].verdict = v
        /\ \A k \in Number : k # n => m2[k] = mail[k]
    BY <2>1, <2>2, <2>3, WhileOpen, VerdictGiven
  <2>5. Fresh(sess, m2)
    <3>1. ~ (n > n)
      BY <2>2, Parameters DEF Message
    <3> QED BY <2>1, <2>4, <3>1, WhileOpen DEF Fresh
  <2>6. CASE pc = "ending"
    <3>1. v = "unknown" /\ Now(pc, sess, be) \in {0, n}
      BY <2>1, <2>6 DEF Now
    <3>2. \A k \in Message : k # n => m2[k].verdict = mail[k].verdict
      BY <2>4, Parameters
    <3>3. Files(c, m2, Formats(mail), 0)
      BY <1>1, <2>2, <2>4, <3>1, <3>2, FilesSettle
    <3> QED BY <2>1, <2>4, <2>5, <3>3
  <2>7. CASE pc # "ending"
    <3>1. Files(c, mail, Formats(mail), 0)
      BY <2>7, WhileOpen
    <3>2. \A k \in Message : k # n => m2[k].verdict = mail[k].verdict
      BY <2>4, Parameters
    <3>3. m2[n].verdict # "ack" /\ mail[n].verdict \notin {"ack", "nak", "unknown"}
      BY <2>2, <2>3, <2>4
    <3>4. Files(c, m2, Formats(mail), 0)
      BY <1>1, <2>2, <3>1, <3>2, <3>3, FilesElsewhere
    <3> QED BY <2>1, <2>4, <2>5, <3>4
  <2> QED BY <2>6, <2>7
<1> QED BY <1>2, <1>3

-----------------------------------------------------------------------------
(* The actions                                                             *)

\* HELO, EHLO and RSET empty the transaction.
LEMMA ResetsPreserve ==
  ASSUME Inductive, HELO \/ RSET
  PROVE  Inductive'
<1> DEFINE c == queuedir_reset(be)
<1>1. pc = "command" /\ pc' = "command" /\ mail' = mail
  BY DEF HELO, RSET
<1>2. /\ sess' \in Session /\ sess'.n = sess.n /\ be' = c
      /\ offer' = NoOffer /\ saw_mail' \in BOOLEAN /\ saw_rcpt' \in BOOLEAN /\ rcpts' \in Nat
  <2>1. PICK answers : Becomes(handle_reset(sess, be, answers))
    BY DEF HELO, RSET
  <2> DEFINE o == handle_reset(sess, be, answers)
  <2>2. o.sess \in Session /\ o.sess.n = sess.n /\ o.be = c
    BY <1>1, WhileOpen, ResetHandled
  <2>3. sess' = o.sess /\ be' = o.be
    BY <2>1 DEF Becomes
  <2>4. /\ offer' = NoOffer /\ saw_mail' \in BOOLEAN /\ saw_rcpt' \in BOOLEAN /\ rcpts' \in Nat
    <3>1. CASE HELO
      BY <3>1, <1>1, WhileOpen DEF HELO, Inductive
    <3>2. CASE RSET
      BY <3>2 DEF RSET
    <3> QED BY <3>1, <3>2
  <2> HIDE DEF o, c
  <2> QED BY <2>2, <2>3, <2>4
<1>3. Clear(c, mail, Formats(mail), 0)
  BY <1>1, WhileOpen, ResetIsClear
<1> HIDE DEF c
<1>4. NoOffer \in Offer
  BY DEF NoOffer, Offer
<1>5. /\ Directory(c) /\ Live(c) /\ c.phase = "idle" /\ Files(c, mail, Formats(mail), 0)
      /\ EnvelopeIsOffer(c, NoOffer)
  BY <1>3, NothingIsWritten DEF Clear
<1>6. Fresh(sess', mail)
  BY <1>1, <1>2, WhileOpen DEF Fresh
<1>7. Holds("command", saw_mail', sess', c, NoOffer, mail)
  BY <1>1, <1>2, <1>4, <1>5, <1>6, WhileOpen, CommandHolds
<1> QED BY <1>1, <1>2, <1>7 DEF Inductive

\* The end of a session, however it comes, resets the backend.
LEMMA ExitsPreserve ==
  ASSUME Inductive, pc # "closed", pc' = "closed", sess' \in Session, sess'.n = sess.n,
         be' = queuedir_reset(be), mail' = MailCut,
         UNCHANGED <<saw_mail, saw_rcpt, rcpts, offer>>
  PROVE  Inductive'
<1> DEFINE c == queuedir_reset(be)
<1>1. Clear(c, mail, Formats(mail), Now(pc, sess, be))
  BY ResetIsClear
<1> HIDE DEF c
<1>2. Directory(c) /\ c.tmp = {} /\ Files(c, mail, Formats(mail), Now(pc, sess, be))
  BY <1>1 DEF Clear
<1>3. /\ MailCut \in [Number -> Mail] /\ Fresh(sess, MailCut)
      /\ Files(c, MailCut, Formats(MailCut), 0)
  BY <1>2, CutIsSettled
<1>4. Fresh(sess', MailCut)
  BY <1>3 DEF Fresh
<1> DEFINE cut == MailCut
<1> HIDE DEF cut
<1>5. Holds("closed", saw_mail, sess', c, offer, cut)
  BY <1>2, <1>3, <1>4, WhileOpen, ClosedHolds DEF cut
<1> QED BY <1>5 DEF Inductive, c, cut

\* Leaving, the alarm, and a plugin's refusal of a reset.
LEMMA EndsPreserve ==
  ASSUME Inductive, Leave \/ Alarm \/ ResetFails
  PROVE  Inductive'
<1>1. CASE Leave \/ Alarm
  <2> DEFINE o == exitfn(sess, be)
  <2>1. /\ pc # "closed" /\ pc' = "closed" /\ mail' = MailCut
        /\ UNCHANGED <<saw_mail, saw_rcpt, rcpts, offer>>
        /\ sess' = o.sess /\ be' = o.be
    BY <1>1 DEF Leave, Alarm, Exits, Becomes, Outcome
  <2>2. o.sess \in Session /\ o.sess.n = sess.n /\ o.be = queuedir_reset(be)
    BY <2>1, WhileOpen, ResetHandled
  <2> HIDE DEF o
  <2> QED BY <2>1, <2>2, ExitsPreserve
<1>2. CASE ResetFails
  <2>1. PICK answers \in Chains : Exits(handle_reset(sess, be, answers))
    BY <1>2 DEF ResetFails
  <2> DEFINE o == handle_reset(sess, be, answers)
             e == exitfn(o.sess, o.be)
             c == queuedir_reset(be)
  <2>2. /\ pc = "command" /\ pc' = "closed" /\ mail' = MailCut
        /\ UNCHANGED <<saw_mail, saw_rcpt, rcpts, offer>>
        /\ sess' = e.sess /\ be' = e.be
    BY <1>2, <2>1 DEF ResetFails, Exits, Becomes, MailCut
  <2>3. o.sess \in Session /\ o.sess.n = sess.n /\ o.be = c
    BY <2>2, WhileOpen, ResetHandled
  <2> HIDE DEF o
  <2>4. e.sess \in Session /\ e.sess.n = sess.n /\ e.be = queuedir_reset(c)
    BY <2>3, ResetHandled
  <2>5. queuedir_reset(c) = c
    <3>1. c \in QueuedirState /\ Clear(c, mail, Formats(mail), Now(pc, sess, be))
      BY <2>2, ResetIsClear
    <3> HIDE DEF c
    <3> QED BY <3>1, ResetAgain DEF Clear
  <2> HIDE DEF e
  <2> QED BY <2>2, <2>4, <2>5, ExitsPreserve
<1> QED BY <1>1, <1>2

\* MAIL starts a file for the sender it accepts.
LEMMA MailPreserves ==
  ASSUME Inductive, NEW a \in Address, MAIL(a)
  PROVE  Inductive'
<1>1. PICK answers \in Chains, resets \in Chains :
        LET r == handle_reset(sess, be, resets)
        IN  \E o \in handle_sender(r.sess, r.be, a, answers) :
              /\ Becomes(o)
              /\ saw_mail' = response_ok(o.resp)
              /\ offer' = IF response_ok(o.resp) THEN [from |-> <<a>>, to |-> <<>>] ELSE NoOffer
  BY DEF MAIL
<1> DEFINE r == handle_reset(sess, be, resets)
           c == queuedir_reset(be)
           new == [from |-> <<a>>, to |-> <<>>]
<1>2. pc = "command" /\ pc' = "command" /\ mail' = mail /\ saw_rcpt' = FALSE /\ rcpts' = 0
  BY DEF MAIL
<1>3. r.sess \in Session /\ r.sess.n = sess.n /\ r.be = c
  BY <1>2, WhileOpen, ResetHandled
<1>4. Clear(c, mail, Formats(mail), 0) /\ c \in QueuedirState
  BY <1>2, WhileOpen, ResetIsClear
<1>5. PICK o \in handle_sender(r.sess, c, a, answers) :
        /\ sess' = o.sess /\ be' = o.be
        /\ saw_mail' = response_ok(o.resp)
        /\ offer' = IF response_ok(o.resp) THEN new ELSE NoOffer
  BY <1>1, <1>3 DEF Becomes
<1>6. NoOffer \in Offer /\ new \in Offer /\ new.from # <<>>
  BY DEF NoOffer, Offer
<1>7. Envelope(new) = <<From(a)>>
  BY EnvelopeOfSender
<1> HIDE DEF r, c, new
<1>8. /\ o.sess = r.sess
      /\ \/ o.be = c /\ ~ response_ok(o.resp)
         \/ \E p \in queuedir_sender(c, a) :
              o.be = p.be /\ (response_ok(o.resp) <=> response_ok(p.resp))
  BY SenderHandled
<1>9. Fresh(r.sess, mail) /\ mail \in [Number -> Mail]
  BY <1>2, <1>3, WhileOpen DEF Fresh
<1>0. saw_mail' = IF response_ok(o.resp) THEN TRUE ELSE FALSE
  BY <1>5 DEF response_ok
<1>10. CASE o.be = c /\ ~ response_ok(o.resp)
  <2>1. Holds("command", FALSE, r.sess, c, NoOffer, mail)
    BY <1>3, <1>4, <1>6, <1>9, CommandHolds DEF Clear
  <2> QED BY <1>0, <1>2, <1>5, <1>8, <1>10, <2>1 DEF Inductive
<1>11. ASSUME NEW p \in queuedir_sender(c, a), o.be = p.be,
              response_ok(o.resp) <=> response_ok(p.resp)
       PROVE  Inductive'
  <2>1. /\ Directory(c) /\ Live(c) /\ ~ c.tlen /\ ~ c.dlen /\ c.phase = "idle"
        /\ Files(c, mail, Formats(mail), 0)
    BY <1>4 DEF Clear
  <2>2. /\ Directory(p.be) /\ Live(p.be)
        /\ p.be.new = c.new /\ p.be.taken = c.taken /\ p.be.sync = c.sync
        /\ p.be.phase = "idle" /\ p.be.fate = c.fate /\ p.be.n = c.n
        /\ \/ p.resp = "temp"
           \/ /\ p.resp = "none" /\ p.be.tlen /\ p.be.dlen
              /\ p.be.out.data = <<From(a)>>
    BY <2>1, SenderOutcome
  <2>3. Files(p.be, mail, Formats(mail), 0)
    BY <1>4, <2>1, <2>2, FilesStay
  <2>4. CASE p.resp = "temp"
    <3>1. ~ response_ok(o.resp)
      BY <1>11, <2>4 DEF response_ok
    <3>2. Holds("command", FALSE, r.sess, p.be, NoOffer, mail)
      BY <1>3, <1>6, <1>9, <2>2, <2>3, CommandHolds
    <3> QED BY <1>0, <1>2, <1>5, <1>8, <1>11, <3>1, <3>2 DEF Inductive
  <2>5. CASE p.resp # "temp"
    <3>1. response_ok(o.resp)
      BY <1>11, <2>2, <2>5 DEF response_ok
    <3>2. EnvelopeIsOffer(p.be, new)
      BY <1>6, <1>7, <2>2, <2>5 DEF EnvelopeIsOffer, Writes
    <3>3. Holds("command", TRUE, r.sess, p.be, new, mail)
      BY <1>3, <1>6, <1>9, <2>2, <2>3, <3>2, CommandHolds
    <3> QED BY <1>0, <1>2, <1>5, <1>8, <1>11, <3>1, <3>3 DEF Inductive
  <2> QED BY <2>4, <2>5
<1> QED BY <1>8, <1>10, <1>11

\* An offer's sender and recipients are sequences of addresses.
LEMMA OfferType ==
  ASSUME NEW o \in Offer
  PROVE  o.from \in Seq(Address) /\ o.to \in Seq(Address)
<1>1. o.from \in {<<>>} \cup {<<x>> : x \in Address} /\ o.to \in Seq(Address)
  BY DEF Offer
<1>2. CASE o.from = <<>>
  BY <1>1, <1>2
<1>3. ASSUME NEW x \in Address, o.from = <<x>>
      PROVE  o.from \in Seq(Address)
  BY <1>3
<1> QED BY <1>1, <1>2, <1>3

\* An offer with one more recipient.
LEMMA OfferGrows ==
  ASSUME NEW o \in Offer, NEW a \in Address
  PROVE  LET p == [o EXCEPT !.to = Append(@, a)]
         IN  /\ p \in Offer /\ p.from = o.from
             /\ Envelope(p) = Envelope(o) \o <<To(a)>>
<1> DEFINE p == [o EXCEPT !.to = Append(@, a)]
<1>1. /\ o.from \in Seq(Address) /\ o.to \in Seq(Address)
      /\ p \in Offer /\ p.from = o.from /\ p.to = Append(o.to, a)
  <2>1. o.from \in {<<>>} \cup {<<x>> : x \in Address} /\ o.to \in Seq(Address)
    BY DEF Offer
  <2>2. o.from \in Seq(Address)
    BY OfferType
  <2>3. Append(o.to, a) \in Seq(Address)
    BY <2>1
  <2>4. p = [o EXCEPT !.to = Append(o.to, a)]
    OBVIOUS
  <2> QED BY <2>1, <2>2, <2>3, <2>4 DEF Offer
<1> HIDE DEF p
<1>2. Envelope(p) = Envelope(o) \o <<To(a)>>
  BY <1>1, EnvelopeGrows
<1> QED BY <1>1, <1>2 DEF p

\* RCPT puts the recipient it accepts behind the envelope.
LEMMA RcptPreserves ==
  ASSUME Inductive, NEW a \in Address, RCPT(a)
  PROVE  Inductive'
<1> DEFINE more == [offer EXCEPT !.to = Append(@, a)]
<1>1. PICK answers \in Chains : \E o \in handle_recipient(sess, be, a, answers) :
        /\ Becomes(o)
        /\ saw_rcpt' = (saw_rcpt \/ response_ok(o.resp))
        /\ offer' = IF response_ok(o.resp) /\ offer # NoOffer THEN more ELSE offer
  BY DEF RCPT
<1>2. PICK o \in handle_recipient(sess, be, a, answers) :
        /\ sess' = o.sess /\ be' = o.be
        /\ saw_rcpt' = (saw_rcpt \/ response_ok(o.resp))
        /\ offer' = IF response_ok(o.resp) /\ offer # NoOffer THEN more ELSE offer
  BY <1>1 DEF Becomes
<1>3. /\ pc = "command" /\ pc' = "command" /\ mail' = mail /\ saw_mail = TRUE /\ saw_mail' = TRUE
      /\ rcpts' \in Nat
  BY DEF RCPT, Inductive, Holds
<1>4. /\ offer \in Offer /\ more \in Offer /\ more.from = offer.from
      /\ Envelope(more) = Envelope(offer) \o <<To(a)>>
  BY <1>3, WhileOpen, OfferGrows
<1> HIDE DEF more
<1>5. saw_rcpt' \in BOOLEAN
  BY <1>2 DEF Inductive, response_ok
<1>6. EnvelopeIsOffer(be, offer)
  BY <1>3 DEF Inductive, Holds
<1>7. /\ Files(be, mail, Formats(mail), 0) /\ be \in QueuedirState
      /\ Directory(be) /\ Live(be) /\ be.phase = "idle" /\ ~ Linking(be)
      /\ sess \in Session /\ mail \in [Number -> Mail] /\ Fresh(sess, mail)
  BY <1>3, WhileOpen
<1>8. /\ o.sess = sess
      /\ \/ o.be = be /\ ~ response_ok(o.resp)
         \/ \E p \in queuedir_recipient(be, a) :
              o.be = p.be /\ (response_ok(o.resp) <=> response_ok(p.resp))
  BY RecipientHandled
<1>9. CASE o.be = be /\ ~ response_ok(o.resp)
  <2>1. offer' = offer
    BY <1>2, <1>9
  <2>2. Holds("command", TRUE, sess, be, offer, mail)
    BY <1>4, <1>6, <1>7, CommandHolds
  <2> QED BY <1>2, <1>3, <1>5, <1>8, <1>9, <2>1, <2>2 DEF Inductive
<1>10. ASSUME NEW p \in queuedir_recipient(be, a), o.be = p.be,
              response_ok(o.resp) <=> response_ok(p.resp)
       PROVE  Inductive'
  <2>1. /\ Leaves(be, p.be)
        /\ p.be.n = be.n /\ p.be.phase = be.phase /\ p.be.tmpfd = be.tmpfd
        /\ \/ /\ p.resp = "none" /\ be.out.st = "open" /\ p.be.out.st = "open"
              /\ p.be.out.data = be.out.data \o <<To(a)>>
           \/ /\ p.resp = "temp" /\ p.be.out.st # "open"
    BY <1>7, RecipientOutcome
  <2>2. Directory(p.be) /\ Live(p.be)
    BY <1>7, <2>1, LeavesKeeps DEF Linking
  <2>3. Files(p.be, mail, Formats(mail), 0)
    BY <1>7, <2>1, FilesStay DEF Leaves
  <2>4. offer' \in Offer
    BY <1>2, <1>4
  <2>5. EnvelopeIsOffer(p.be, offer')
    <3>1. p.be.tlen = p.be.dlen /\ (p.be.dlen <=> be.dlen)
      BY <1>6, <2>1 DEF Leaves, EnvelopeIsOffer, Writes
    <3>2. CASE p.resp = "temp"
      <4>1. offer' = offer /\ p.be.out.st # "open" /\ p.be.phase # "link"
        BY <1>2, <1>7, <1>10, <2>1, <3>2 DEF response_ok
      <4> QED BY <1>6, <3>1, <4>1 DEF EnvelopeIsOffer, Writes
    <3>3. CASE p.resp # "temp" /\ be.dlen
      <4>1. offer.from # <<>> /\ be.out.data = Envelope(offer)
        BY <1>6, <2>1, <3>3 DEF EnvelopeIsOffer, Writes
      <4>2. offer' = more
        BY <1>2, <1>10, <2>1, <3>3, <4>1 DEF NoOffer, response_ok
      <4> QED BY <1>4, <2>1, <3>1, <3>3, <4>1, <4>2 DEF EnvelopeIsOffer, Writes
    <3>4. CASE ~ be.dlen
      BY <3>1, <3>4 DEF EnvelopeIsOffer, Writes
    <3> QED BY <3>2, <3>3, <3>4
  <2>6. Holds("command", TRUE, sess, p.be, offer', mail)
    BY <1>7, <2>1, <2>2, <2>3, <2>4, <2>5, CommandHolds
  <2> QED BY <1>2, <1>3, <1>5, <1>8, <1>10, <2>6 DEF Inductive
<1> QED BY <1>8, <1>9, <1>10

-----------------------------------------------------------------------------
(* DATA, the blocks and the end of a message                               *)

\* A message that is not answered is started, or goes on: nothing of it is stored.
LEMMA MessageGoesOn ==
  ASSUME NEW b \in QueuedirState, NEW m \in [Number -> Mail], Files(b, m, Formats(m), 0),
         NEW n \in Number, m[n].verdict \notin {"ack", "nak", "unknown"},
         NEW x \in Mail, x.verdict # "ack"
  PROVE  LET m2 == [m EXCEPT ![n] = x]
         IN  /\ m2 \in [Number -> Mail] /\ m2[n] = x
             /\ \A k \in Number : k # n => m2[k] = m[k]
             /\ Files(b, m2, Formats(m2), 0)
<1> DEFINE m2 == [m EXCEPT ![n] = x]
<1>1. /\ m2 \in [Number -> Mail] /\ m2[n] = x
      /\ \A k \in Number : k # n => m2[k] = m[k]
  OBVIOUS
<1> HIDE DEF m2
<1>2. \A k \in Message : k # n => m2[k].verdict = m[k].verdict /\ Formats(m2)[k] = Formats(m)[k]
  BY <1>1, Parameters DEF Formats
<1>3. n \in Message /\ m2[n].verdict # "ack"
  BY <1>1, Parameters
<1>4. Files(b, m2, Formats(m2), 0)
  BY <1>2, <1>3, FilesElsewhere
<1> QED BY <1>1, <1>4 DEF m2

\* What a hook leaves alone before a message is linked may be reset.
LEMMA LeftOrReset ==
  ASSUME Inductive, pc \notin {"ending", "closed"}, NEW c, Leaves(be, c), c.phase = be.phase
  PROVE  /\ Directory(c) /\ Live(c) /\ c.phase = "idle"
         /\ Files(c, mail, Formats(mail), 0)
         /\ LET d == queuedir_reset(c)
            IN  Clear(d, mail, Formats(mail), 0) /\ d.n = c.n /\ d \in QueuedirState
<1>1. /\ Files(be, mail, Formats(mail), 0) /\ be \in QueuedirState
      /\ Directory(be) /\ Live(be) /\ be.phase = "idle" /\ ~ Linking(be)
  BY WhileOpen
<1>2. ~ Linking(c)
  BY <1>1 DEF Linking
<1>3. Directory(c) /\ Live(c)
  BY <1>1, <1>2, LeavesKeeps
<1>4. Files(c, mail, Formats(mail), 0)
  BY <1>1, FilesStay DEF Leaves
<1>5. Current(c, mail, 0)
  BY <1>2 DEF Current
<1>6. LET d == queuedir_reset(c)
      IN  Clear(d, mail, Formats(mail), 0) /\ d.n = c.n
  BY <1>3, <1>4, <1>5, ResetWorks
<1> QED BY <1>1, <1>3, <1>4, <1>6 DEF Clear, Directory

\* DATA starts a message, refuses it, or resets it.
LEMMA DataPreserves ==
  ASSUME Inductive, DATA
  PROVE  Inductive'
<1> DEFINE x(r) == [offer |-> offer, blocks |-> 0,
                    verdict |-> IF response_ok(r) THEN "open" ELSE "nak"]
           n == sess.n + 1
           m2(r) == [mail EXCEPT ![n] = x(r)]
<1>1. /\ Files(be, mail, Formats(mail), 0) /\ be \in QueuedirState
      /\ Directory(be) /\ Live(be) /\ be.phase = "idle" /\ ~ Linking(be)
      /\ sess \in Session /\ mail \in [Number -> Mail] /\ Fresh(sess, mail)
      /\ offer \in Offer /\ saw_mail \in BOOLEAN /\ saw_rcpt \in BOOLEAN
      /\ EnvelopeIsOffer(be, offer)
  BY WhileOpen DEF DATA, Inductive, Holds
<1>2. /\ sess.n \in Nat /\ n \in Number /\ n \in Message /\ n > sess.n
      /\ \A k \in Number : k > n => k > sess.n /\ k # n
  BY <1>1, Parameters DEF Session, Number, DATA
<1>3. PICK answers \in Chains : \E o \in handle_data_start(sess, be, answers) :
        /\ Becomes(o)
        /\ pc' = IF response_ok(o.resp) THEN "body" ELSE "command"
        /\ mail' = [mail EXCEPT ![o.sess.n] = x(o.resp)]
  BY DEF DATA
<1>4. PICK o \in handle_data_start(sess, be, answers) :
        /\ sess' = o.sess /\ be' = o.be
        /\ pc' = IF response_ok(o.resp) THEN "body" ELSE "command"
        /\ mail' = [mail EXCEPT ![o.sess.n] = x(o.resp)]
  BY <1>3 DEF Becomes
<1>5. /\ o.sess \in Session /\ o.sess.n = n
      /\ \/ o.be = be /\ ~ response_ok(o.resp)
         \/ \E fd : \E p \in queuedir_data_start(be, fd, n) :
              \/ o.be = queuedir_reset(p.be) /\ ~ response_ok(o.resp)
              \/ /\ o.be = p.be /\ response_ok(o.resp) /\ response_ok(p.resp)
                 /\ response_ok(o.sess.dresp)
  BY <1>1, DataStartHandled DEF DATA
<1>6. mail' = m2(o.resp)
  BY <1>4, <1>5
<1>7. /\ x(o.resp) \in Mail /\ x(o.resp).verdict # "ack" /\ x(o.resp).blocks = 0
      /\ x(o.resp).offer = offer /\ (response_ok(o.resp) => x(o.resp).verdict = "open")
  BY <1>1 DEF Mail, Verdict
<1>8. saw_mail' = saw_mail /\ saw_rcpt' = saw_rcpt /\ offer' = offer /\ rcpts' = 0 /\ saw_mail = TRUE
  BY <1>1 DEF DATA
<1> HIDE DEF x, n
<1>9. mail[n].verdict = "none"
  BY <1>1, <1>2 DEF Fresh
<1>10. ASSUME NEW c, c \in QueuedirState, Files(c, mail, Formats(mail), 0)
       PROVE  /\ mail' \in [Number -> Mail] /\ mail'[n] = x(o.resp) /\ Fresh(sess', mail')
              /\ Files(c, mail', Formats(mail'), 0)
  <2>1. /\ mail' \in [Number -> Mail] /\ mail'[n] = x(o.resp)
        /\ \A k \in Number : k # n => mail'[k] = mail[k]
        /\ Files(c, mail', Formats(mail'), 0)
    BY <1>1, <1>2, <1>6, <1>7, <1>9, <1>10, MessageGoesOn, ZenonT(60)
  <2> QED BY <1>1, <1>2, <1>4, <1>5, <2>1 DEF Fresh
<1> HIDE DEF m2
<1>11. ASSUME ~ response_ok(o.resp), NEW c, o.be = c, Directory(c), Live(c), c.phase = "idle",
              Files(c, mail, Formats(mail), 0), EnvelopeIsOffer(c, offer)
       PROVE  Inductive'
  <2>1. c \in QueuedirState
    BY <1>11 DEF Directory
  <2>2. Holds("command", TRUE, sess', c, offer, mail')
    BY <1>1, <1>4, <1>5, <1>10, <1>11, <2>1, CommandHolds
  <2>3. pc' = "command"
    BY <1>4, <1>11
  <2> QED BY <1>1, <1>4, <1>8, <1>11, <2>2, <2>3 DEF Inductive
<1>12. CASE o.be = be /\ ~ response_ok(o.resp)
  BY <1>1, <1>11, <1>12
<1>13. ASSUME NEW fd, NEW p \in queuedir_data_start(be, fd, n),
              \/ o.be = queuedir_reset(p.be) /\ ~ response_ok(o.resp)
              \/ /\ o.be = p.be /\ response_ok(o.resp) /\ response_ok(p.resp)
                 /\ response_ok(o.sess.dresp)
       PROVE  Inductive'
  <2>1. /\ Leaves(be, p.be) /\ p.be.n = n /\ p.be.phase = be.phase
        /\ be.dlen => ~ p.be.tmpfd
        /\ \/ /\ p.resp = "none"
              /\ be.dlen => /\ be.out.st = "open" /\ p.be.out.st = "open"
                            /\ p.be.out.data = be.out.data \o <<Nul>>
           \/ p.resp = "temp"
    BY <1>1, <1>2, DataStartOutcome
  <2>2. pc = "command"
    BY DEF DATA
  <2>3. /\ Directory(p.be) /\ Live(p.be) /\ p.be.phase = "idle"
        /\ Files(p.be, mail, Formats(mail), 0)
        /\ LET d == queuedir_reset(p.be)
           IN  Clear(d, mail, Formats(mail), 0) /\ d.n = p.be.n /\ d \in QueuedirState
    BY <2>1, <2>2, LeftOrReset
  <2>4. CASE o.be = queuedir_reset(p.be) /\ ~ response_ok(o.resp)
    <3> DEFINE d == queuedir_reset(p.be)
    <3>1. o.be = d /\ Clear(d, mail, Formats(mail), 0)
      BY <2>3, <2>4
    <3> HIDE DEF d
    <3>2. EnvelopeIsOffer(d, offer)
      BY <3>1, NothingIsWritten DEF Clear
    <3> QED BY <1>11, <2>4, <3>1, <3>2 DEF Clear
  <2>5. CASE o.be = p.be /\ response_ok(o.resp) /\ response_ok(p.resp) /\ response_ok(o.sess.dresp)
    <3>1. p.be \in QueuedirState
      BY <2>1 DEF Leaves
    <3>2. /\ mail' \in [Number -> Mail] /\ mail'[n] = x(o.resp) /\ Fresh(sess', mail')
          /\ Files(p.be, mail', Formats(mail'), 0)
      BY <1>10, <2>3, <3>1
    <3>3. Arriving(sess', p.be, mail')
      BY <1>2, <1>4, <1>5, <1>7, <2>1, <2>5, <3>2 DEF Arriving
    <3>4. Format(mail'[n]) = Envelope(offer) \o <<Nul>>
      <4>1. Envelope(offer) \in Seq(Item)
        <5>1. offer.from \in Seq(Address) /\ offer.to \in Seq(Address)
          BY <1>1, OfferType
        <5> QED BY <5>1, EnvelopeGrows
      <4> QED BY <1>7, <3>2, <4>1, FormatGrows, SMTT(30)
    <3>5. Handed("body", sess', mail') = mail'[n]
      BY <1>4, <1>5 DEF Handed
    <3>6. p.resp = "none"
      BY <2>1, <2>5 DEF response_ok
    <3>7. p.be.tlen = p.be.dlen /\ p.be.dlen = be.dlen
          /\ (be.dlen => (be.out.st = "open" => be.out.data = Envelope(offer)))
      BY <1>1, <2>1 DEF Leaves, EnvelopeIsOffer, Writes
    <3>8. BodyIsWritten("body", sess', p.be, mail')
      BY <1>4, <2>1, <2>5, <3>4, <3>5, <3>6, <3>7 DEF BodyIsWritten, Writes
    <3>9. Holds("body", saw_mail, sess', p.be, offer, mail')
      BY <1>1, <1>4, <1>5, <2>3, <3>2, <3>3, <3>8, BodyHolds
    <3>10. pc' = "body" /\ be' = p.be
      BY <1>4, <2>5
    <3> QED BY <1>1, <1>8, <3>9, <3>10 DEF Inductive
  <2> QED BY <1>13, <2>4, <2>5
<1> QED BY <1>5, <1>12, <1>13


\* What a file holds is told by the offer and the blocks.
LEMMA FormatSame ==
  ASSUME NEW m, NEW p, p.offer = m.offer, p.blocks = m.blocks
  PROVE  Format(p) = Format(m)
  BY DEF Format

\* A block has come and is not handed on: the file is as it was.
LEMMA BlockArrivesPreserves ==
  ASSUME Inductive, BlockArrives
  PROVE  Inductive'
<1> DEFINE n == sess.n
           x == [mail[n] EXCEPT !.blocks = @ + 1]
<1>1. /\ Files(be, mail, Formats(mail), 0) /\ be \in QueuedirState
      /\ Directory(be) /\ Live(be) /\ be.phase = "idle"
      /\ sess \in Session /\ mail \in [Number -> Mail] /\ Fresh(sess, mail)
      /\ offer \in Offer /\ saw_mail \in BOOLEAN
  BY WhileOpen DEF BlockArrives
<1>2. Arriving(sess, be, mail) /\ BodyIsWritten("body", sess, be, mail)
  BY DEF BlockArrives, Inductive, Holds
<1>3. n \in Number /\ mail[n].verdict = "open" /\ mail[n] \in Mail /\ n \in Message
  BY <1>1, <1>2, Parameters DEF Arriving
<1>4. /\ x \in Mail /\ x.offer = mail[n].offer /\ x.verdict = "open"
      /\ mail[n].blocks \in Nat /\ x.blocks = mail[n].blocks + 1
  BY <1>3 DEF Mail
<1>5. /\ pc' = "block" /\ mail' = [mail EXCEPT ![n] = x]
      /\ UNCHANGED <<saw_mail, saw_rcpt, sess, be, rcpts, offer>>
  BY DEF BlockArrives
<1> HIDE DEF x, n
<1>6. /\ mail' \in [Number -> Mail] /\ mail'[n] = x
      /\ \A k \in Number : k # n => mail'[k] = mail[k]
      /\ Files(be, mail', Formats(mail'), 0)
  BY <1>1, <1>3, <1>4, <1>5, MessageGoesOn
<1>7. Fresh(sess, mail')
  <2>1. ~ (n > n)
    BY <1>3, Parameters DEF Message
  <2> QED BY <1>1, <1>6, <2>1 DEF Fresh, n
<1>8. Arriving(sess, be, mail')
  BY <1>2, <1>4, <1>6 DEF Arriving, n
<1>9. BodyIsWritten("block", sess, be, mail')
  <2> DEFINE h == [x EXCEPT !.blocks = @ - 1]
  <2>1. h.offer = x.offer /\ h.blocks = x.blocks - 1
    BY <1>4 DEF Mail
  <2>2. Handed("block", sess, mail') = h
    BY <1>6 DEF Handed, n
  <2>3. Handed("body", sess, mail) = mail[n]
    BY DEF Handed, n
  <2> HIDE DEF h
  <2>4. h.blocks = mail[n].blocks
    BY <1>4, <2>1
  <2>5. Format(h) = Format(mail[n])
    BY <1>4, <2>1, <2>4, FormatSame
  <2>6. x.blocks > 0
    BY <1>4
  <2> QED BY <1>2, <1>6, <2>2, <2>3, <2>5, <2>6 DEF BodyIsWritten, n
<1>10. Holds("block", saw_mail, sess, be, offer, mail')
  BY <1>1, <1>6, <1>7, <1>8, <1>9, BodyHolds
<1> QED BY <1>5, <1>10 DEF Inductive

\* The block is put behind what the file holds, or the message is reset.
LEMMA BlockHandledPreserves ==
  ASSUME Inductive, BlockHandled
  PROVE  Inductive'
<1> DEFINE n == sess.n
           h == Handed("block", sess, mail)
<1>1. /\ Files(be, mail, Formats(mail), 0) /\ be \in QueuedirState
      /\ Directory(be) /\ Live(be) /\ be.phase = "idle"
      /\ sess \in Session /\ mail \in [Number -> Mail] /\ Fresh(sess, mail)
      /\ offer \in Offer /\ saw_mail \in BOOLEAN
  BY WhileOpen DEF BlockHandled
<1>2. Arriving(sess, be, mail) /\ BodyIsWritten("block", sess, be, mail)
  BY DEF BlockHandled, Inductive, Holds
<1>3. /\ pc' = "body" /\ pc = "block" /\ mail' = mail
      /\ UNCHANGED <<saw_mail, saw_rcpt, rcpts, offer>>
  BY DEF BlockHandled
<1>4. PICK answers \in Chains : \E o \in handle_data_bytes(sess, be, answers) : Becomes(o)
  BY DEF BlockHandled
<1>5. PICK o \in handle_data_bytes(sess, be, answers) : sess' = o.sess /\ be' = o.be
  BY <1>4 DEF Becomes
<1>6. /\ o.sess \in Session /\ o.sess.n = sess.n
      /\ \/ o.be = be /\ ~ response_ok(sess.dresp) /\ o.sess.dresp = sess.dresp
         \/ o.be = queuedir_reset(be)
         \/ \E p \in queuedir_data_block(be) :
              \/ o.be = queuedir_reset(p.be)
              \/ o.be = p.be /\ o.sess.dresp = sess.dresp
  <2>1. answers \in Seq(Response)
    BY Parameters
  <2> QED BY <1>1, <2>1, DataBytesHandled
<1>7. Fresh(o.sess, mail)
  BY <1>1, <1>6 DEF Fresh
<1>8. ASSUME NEW c, o.be = c, Directory(c), Live(c), c.phase = "idle", c.n = be.n,
             Files(c, mail, Formats(mail), 0), BodyIsWritten("body", o.sess, c, mail)
      PROVE  Inductive'
  <2>1. Arriving(o.sess, c, mail)
    BY <1>2, <1>6, <1>8 DEF Arriving
  <2>2. Holds("body", saw_mail, o.sess, c, offer, mail)
    BY <1>1, <1>6, <1>7, <1>8, <2>1, BodyHolds
  <2> QED BY <1>3, <1>5, <1>8, <2>2 DEF Inductive
<1>9. ASSUME NEW c, o.be = c, Clear(c, mail, Formats(mail), 0), c.n = be.n
      PROVE  Inductive'
  <2>1. BodyIsWritten("body", o.sess, c, mail)
    BY <1>9, NothingIsWritten DEF BodyIsWritten, Clear
  <2> QED BY <1>8, <1>9, <2>1 DEF Clear
<1>10. CASE o.be = be /\ ~ response_ok(sess.dresp) /\ o.sess.dresp = sess.dresp
  <2>1. ~ be.dlen /\ ~ be.tlen
    BY <1>2, <1>10 DEF BodyIsWritten, Writes
  <2>2. BodyIsWritten("body", o.sess, be, mail)
    BY <1>1, <2>1, NothingIsWritten DEF BodyIsWritten
  <2> QED BY <1>1, <1>8, <1>10, <2>2
<1>11. CASE o.be = queuedir_reset(be)
  <2> DEFINE c == queuedir_reset(be)
  <2>1. Clear(c, mail, Formats(mail), 0) /\ c.n = be.n
    BY <1>3, WhileOpen, ResetIsClear
  <2> HIDE DEF c
  <2> QED BY <1>9, <1>11, <2>1 DEF c
<1>12. ASSUME NEW p \in queuedir_data_block(be),
              \/ o.be = queuedir_reset(p.be)
              \/ o.be = p.be /\ o.sess.dresp = sess.dresp
       PROVE  Inductive'
  <2>1. /\ Leaves(be, p.be)
        /\ p.be.n = be.n /\ p.be.phase = be.phase /\ p.be.tmpfd = be.tmpfd
        /\ ~ be.tmpfd /\ p.be.out.st = "open"
             => be.out.st = "open" /\ p.be.out.data = be.out.data \o <<Block>>
    BY <1>1, DataBlockOutcome
  <2>2. /\ Directory(p.be) /\ Live(p.be) /\ p.be.phase = "idle"
        /\ Files(p.be, mail, Formats(mail), 0)
        /\ LET d == queuedir_reset(p.be)
           IN  Clear(d, mail, Formats(mail), 0) /\ d.n = p.be.n /\ d \in QueuedirState
    BY <1>3, <2>1, LeftOrReset
  <2>3. CASE o.be = queuedir_reset(p.be)
    <3> DEFINE d == queuedir_reset(p.be)
    <3>1. o.be = d /\ Clear(d, mail, Formats(mail), 0) /\ d.n = be.n
      BY <2>1, <2>2, <2>3
    <3> HIDE DEF d
    <3> QED BY <1>9, <3>1
  <2>4. CASE o.be = p.be /\ o.sess.dresp = sess.dresp
    <3>1. mail[n] \in Mail /\ mail[n].blocks \in Nat /\ mail[n].blocks > 0 /\ mail[n].offer \in Offer
      BY <1>1, <1>2 DEF Arriving, BodyIsWritten, Mail
    <3>2. h.offer = mail[n].offer /\ h.blocks = mail[n].blocks - 1
      BY <3>1 DEF Handed, Mail
    <3> HIDE DEF h, n
    <3>3. h.blocks \in Nat /\ mail[n].blocks = h.blocks + 1
      BY <3>1, <3>2
    <3>4. Format(mail[n]) = Format(h) \o <<Block>>
      <4>1. Envelope(h.offer) \in Seq(Item)
        BY <3>1, <3>2, OfferType, EnvelopeGrows
      <4> QED BY <3>2, <3>3, <4>1, FormatGrows
    <3>5. Handed("body", o.sess, mail) = mail[n]
      BY <1>6 DEF Handed, n
    <3>6. p.be.tlen = p.be.dlen /\ p.be.dlen = be.dlen
          /\ (be.dlen => ~ be.tmpfd /\ response_ok(sess.dresp)
                /\ (be.out.st = "open" => be.out.data = Format(h)))
      BY <1>2, <2>1 DEF Leaves, BodyIsWritten, Writes, h
    <3>7. BodyIsWritten("body", o.sess, p.be, mail)
      BY <2>1, <2>2, <2>4, <3>4, <3>5, <3>6 DEF BodyIsWritten, Writes
    <3> QED BY <1>8, <2>1, <2>2, <2>4, <3>7
  <2> QED BY <1>12, <2>3, <2>4
<1> QED BY <1>6, <1>10, <1>11, <1>12

\* A message is answered, and nothing is under way any more.
LEMMA AnswerHolds ==
  ASSUME Inductive, pc \in {"body", "ending"}, NEW s \in Session, s.n = sess.n,
         NEW c, Directory(c), Live(c), ~ c.tlen, ~ c.dlen, c.phase = "idle",
         NEW now \in {0, sess.n}, Files(c, mail, Formats(mail), now),
         NEW v \in {"ack", "nak"},
         v = "ack" => Lasting(c, sess.n),
         v = "nak" => \A f \in c.new : f.of # now
  PROVE  Holds("command", saw_mail, s, c, NoOffer, Answered(mail, sess.n, v))
<1>1. PICK n, m2 : n = sess.n /\ m2 = Answered(mail, n, v)
  OBVIOUS
<1>2. /\ n \in Number /\ n \in Message /\ mail[n].verdict = "open" /\ v \in Verdict
      /\ saw_mail \in BOOLEAN /\ mail \in [Number -> Mail] /\ Fresh(sess, mail)
      /\ c \in QueuedirState
  BY <1>1, Parameters, WhileOpen DEF Inductive, Holds, Arriving, Verdict, Directory
<1>3. /\ m2 \in [Number -> Mail] /\ Formats(m2) = Formats(mail) /\ m2[n].verdict = v
      /\ \A k \in Number : k # n => m2[k] = mail[k]
  BY <1>1, <1>2, VerdictGiven
<1>4. Fresh(s, m2)
  <2>1. ~ (n > n)
    BY <1>2, Parameters DEF Message
  <2> QED BY <1>1, <1>2, <1>3, <2>1 DEF Fresh
<1>5. v = "nak" => \A f \in c.new : f.of # n
  <2>1. CASE now = 0
    <3>1. \A f \in c.new : f.of \in Message /\ mail[f.of].verdict # "open"
      BY <1>2, <2>1, FilesAreOfMessages DEF Files, Stored
    <3> QED BY <1>2, <3>1
  <2> QED BY <1>1, <2>1
<1>6. \A k \in Message : k # n => m2[k].verdict = mail[k].verdict
  BY <1>3, Parameters
<1>7. Files(c, m2, Formats(mail), 0)
  BY <1>1, <1>2, <1>3, <1>5, <1>6, FilesSettle
<1>8. NoOffer \in Offer /\ EnvelopeIsOffer(c, NoOffer)
  BY NothingIsWritten DEF NoOffer, Offer
<1>9. Holds("command", saw_mail, s, c, NoOffer, m2)
  BY <1>2, <1>3, <1>4, <1>7, <1>8, CommandHolds
<1> QED BY <1>1, <1>9


\* An answer is given, or the end of the message goes on.
LEMMA AnswersPreserve ==
  ASSUME Inductive, pc \in {"body", "ending"},
         NEW o, o.sess \in Session, o.sess.n = sess.n, Answers(o),
         Directory(o.be), Live(o.be),
         \/ /\ o.resp = "busy" /\ o.be.n = be.n /\ o.be.phase # "idle"
            /\ EndIsSafe(o.be, Formats(mail))
            /\ Files(o.be, mail, Formats(mail), IF Linking(o.be) THEN sess.n ELSE 0)
         \/ /\ o.resp # "busy" /\ ~ o.be.tlen /\ ~ o.be.dlen /\ o.be.phase = "idle"
            /\ \E now \in {0, sess.n} :
                 /\ Files(o.be, mail, Formats(mail), now)
                 /\ IF response_ok(o.resp) THEN Lasting(o.be, sess.n)
                    ELSE \A f \in o.be.new : f.of # now
  PROVE  Inductive'
<1>1. /\ sess' = o.sess /\ be' = o.be /\ UNCHANGED <<saw_mail, saw_rcpt, rcpts>>
  BY DEF Answers, Becomes
<1>2. /\ saw_mail \in BOOLEAN /\ offer \in Offer /\ mail \in [Number -> Mail]
      /\ Fresh(sess, mail) /\ Arriving(sess, be, mail)
  BY WhileOpen DEF Inductive, Holds
<1>3. CASE /\ o.resp = "busy" /\ o.be.n = be.n /\ o.be.phase # "idle"
           /\ EndIsSafe(o.be, Formats(mail))
           /\ Files(o.be, mail, Formats(mail), IF Linking(o.be) THEN sess.n ELSE 0)
  <2>1. pc' = "ending" /\ offer' = offer /\ mail' = mail
    BY <1>3 DEF Answers
  <2>2. Now("ending", o.sess, o.be) = IF Linking(o.be) THEN sess.n ELSE 0
    BY DEF Now
  <2>3. Fresh(o.sess, mail) /\ Arriving(o.sess, o.be, mail)
    BY <1>2, <1>3 DEF Fresh, Arriving
  <2>4. Holds("ending", saw_mail, o.sess, o.be, offer, mail)
    BY <1>2, <1>3, <2>2, <2>3 DEF Holds, Places
  <2> QED BY <1>1, <2>1, <2>4 DEF Inductive
<1>4. ASSUME o.resp # "busy", ~ o.be.tlen, ~ o.be.dlen, o.be.phase = "idle",
             NEW now \in {0, sess.n}, Files(o.be, mail, Formats(mail), now),
             IF response_ok(o.resp) THEN Lasting(o.be, sess.n)
             ELSE \A f \in o.be.new : f.of # now
      PROVE  Inductive'
  <2>1. PICK v \in {"ack", "nak"} : v = IF response_ok(o.resp) THEN "ack" ELSE "nak"
    OBVIOUS
  <2>2. pc' = "command" /\ offer' = NoOffer /\ mail' = Answered(mail, sess.n, v)
    BY <1>4, <2>1 DEF Answers, Answered
  <2>3. (v = "ack" => Lasting(o.be, sess.n)) /\ (v = "nak" => \A f \in o.be.new : f.of # now)
    BY <1>4, <2>1
  <2>4. Holds("command", saw_mail, o.sess, o.be, NoOffer, Answered(mail, sess.n, v))
    BY <1>4, <2>3, AnswerHolds
  <2> QED BY <1>1, <2>2, <2>4 DEF Inductive
<1> QED BY <1>3, <1>4

\* The message is refused before the backend is asked, or its file is to be linked.
LEMMA EndOfBodyPreserves ==
  ASSUME Inductive, EndOfBody
  PROVE  Inductive'
<1>1. /\ Files(be, mail, Formats(mail), 0) /\ be \in QueuedirState
      /\ Directory(be) /\ Live(be) /\ be.phase = "idle"
      /\ sess \in Session /\ mail \in [Number -> Mail]
  BY WhileOpen DEF EndOfBody
<1>2. Arriving(sess, be, mail) /\ BodyIsWritten("body", sess, be, mail) /\ pc = "body"
  BY DEF EndOfBody, Inductive, Holds
<1>3. PICK answers \in Chains : \E o \in handle_message_end(sess, be, answers) : Answers(o)
  BY DEF EndOfBody
<1>4. PICK o \in handle_message_end(sess, be, answers) : Answers(o)
  BY <1>3
<1>5. /\ o.sess \in Session /\ o.sess.n = sess.n
      /\ \/ o.be = be /\ ~ response_ok(sess.dresp) /\ ~ response_ok(o.resp) /\ o.resp # "busy"
         \/ o.be = queuedir_reset(be) /\ ~ response_ok(o.resp) /\ o.resp # "busy"
         \/ \E p \in queuedir_message_end(be, sess.fd, sess.file) :
              /\ o.resp = p.resp
              /\ o.be = IF response_ok(p.resp) THEN p.be ELSE queuedir_reset(p.be)
  BY <1>1, MessageEndHandled
<1>6. \A c : Files(c, mail, Formats(mail), 0) /\ c \in QueuedirState => \A f \in c.new : f.of # 0
  BY FilesAreOfMessages DEF Stored
<1>7. ASSUME NEW c, o.be = c, ~ response_ok(o.resp), o.resp # "busy", Directory(c), Live(c),
             ~ c.tlen, ~ c.dlen, c.phase = "idle", Files(c, mail, Formats(mail), 0)
      PROVE  Inductive'
  <2>1. \A f \in c.new : f.of # 0
    BY <1>6, <1>7 DEF Directory
  <2> QED BY <1>2, <1>4, <1>5, <1>7, <2>1, AnswersPreserve
<1>8. CASE o.be = be /\ ~ response_ok(sess.dresp) /\ ~ response_ok(o.resp) /\ o.resp # "busy"
  <2>1. ~ be.dlen /\ ~ be.tlen
    BY <1>2, <1>8 DEF BodyIsWritten, Writes
  <2> QED BY <1>1, <1>7, <1>8, <2>1
<1>9. CASE o.be = queuedir_reset(be) /\ ~ response_ok(o.resp) /\ o.resp # "busy"
  <2> DEFINE c == queuedir_reset(be)
  <2>1. Clear(c, mail, Formats(mail), 0) /\ o.be = c
    BY <1>2, <1>9, WhileOpen, ResetIsClear
  <2> HIDE DEF c
  <2> QED BY <1>7, <1>9, <2>1 DEF Clear
<1>10. ASSUME NEW p \in queuedir_message_end(be, sess.fd, sess.file), o.resp = p.resp,
              o.be = IF response_ok(p.resp) THEN p.be ELSE queuedir_reset(p.be)
       PROVE  Inductive'
  <2>1. /\ Leaves(be, p.be) /\ p.be.n = be.n
        /\ \/ p.resp = "busy" /\ p.be.phase = "sync" /\ Copied(be, p.be)
           \/ p.resp = "temp" /\ p.be.phase = be.phase
    BY <1>1, MessageEndOutcome
  <2>2. CASE p.resp = "busy" /\ p.be.phase = "sync" /\ Copied(be, p.be)
    <3>1. o.be = p.be
      BY <1>10, <2>2 DEF response_ok
    <3>2. ~ Linking(p.be) /\ ~ Linking(be)
      BY <1>1, <2>2 DEF Linking
    <3>3. Directory(p.be) /\ Live(p.be)
      BY <1>1, <2>1, <3>2, LeavesKeeps
    <3>4. Files(p.be, mail, Formats(mail), 0)
      BY <1>1, <2>1, FilesStay DEF Leaves
    <3>5. EndIsSafe(p.be, Formats(mail))
      <4>1. Formats(mail)[p.be.n] = {Format(mail[sess.n])} /\ Handed("body", sess, mail) = mail[sess.n]
        BY <1>2, <2>1 DEF Formats, Arriving, Handed
      <4>2. Writes(p.be, {Format(mail[sess.n])})
        BY <1>1, <1>2, <2>1, <2>2, <4>1 DEF BodyIsWritten, Writes, Leaves, Copied
      <4> QED BY <2>2, <4>1, <4>2 DEF EndIsSafe
    <3>6. o.be.phase # "idle" /\ o.resp = "busy" /\ o.be.n = be.n
      BY <1>10, <2>1, <2>2, <3>1
    <3>7. Files(o.be, mail, Formats(mail), IF Linking(o.be) THEN sess.n ELSE 0)
      BY <3>1, <3>2, <3>4
    <3> QED BY <1>2, <1>4, <1>5, <3>1, <3>3, <3>5, <3>6, <3>7, AnswersPreserve
  <2>3. CASE p.resp = "temp" /\ p.be.phase = be.phase
    <3> DEFINE d == queuedir_reset(p.be)
    <3>1. o.be = d /\ ~ response_ok(o.resp) /\ o.resp # "busy"
      BY <1>10, <2>3 DEF response_ok
    <3>2. Clear(d, mail, Formats(mail), 0)
      BY <1>2, <2>1, <2>3, LeftOrReset
    <3> HIDE DEF d
    <3> QED BY <1>7, <3>1, <3>2 DEF Clear
  <2> QED BY <2>1, <2>2, <2>3
<1> QED BY <1>5, <1>8, <1>9, <1>10

\* The file is synced, linked and unlinked, and the message answered, or reset.
LEMMA EndGoesOnPreserves ==
  ASSUME Inductive, EndGoesOn
  PROVE  Inductive'
<1> DEFINE now == Now(pc, sess, be)
<1>1. /\ Files(be, mail, Formats(mail), now) /\ Current(be, mail, now)
      /\ Directory(be) /\ Live(be) /\ sess \in Session /\ mail \in [Number -> Mail]
  BY WhileOpen DEF EndGoesOn
<1>2. /\ pc = "ending" /\ Arriving(sess, be, mail)
      /\ be.phase # "idle" /\ EndIsSafe(be, Formats(mail))
  BY DEF EndGoesOn, Inductive, Holds
<1>3. now \in {0, sess.n} /\ be.n = sess.n /\ be.n \in Message /\ mail[be.n].verdict = "open"
  BY <1>2, Parameters DEF Now, Arriving
<1>4. PICK o \in handle_message_end_goes_on(sess, be) : Answers(o)
  BY DEF EndGoesOn
<1>5. PICK p \in queuedir_message_end_goes_on(be) : o = MessageEnded(sess, p.be, p.resp)
  BY DEF handle_message_end_goes_on
<1> HIDE DEF now
<1>6. /\ p.be.n = be.n /\ Directory(p.be) /\ Live(p.be)
      /\ \/ /\ p.resp = "busy" /\ p.be.phase # "idle" /\ EndIsSafe(p.be, Formats(mail))
            /\ Files(p.be, mail, Formats(mail), IF Linking(p.be) THEN be.n ELSE 0)
         \/ /\ p.resp = "none" /\ ~ p.be.tlen /\ ~ p.be.dlen /\ p.be.phase = "idle"
            /\ p.be.tmp = {} /\ Files(p.be, mail, Formats(mail), be.n) /\ Lasting(p.be, be.n)
         \/ p.resp = "temp" /\ Clear(p.be, mail, Formats(mail), now)
  BY <1>1, <1>2, <1>3, GoesOnOutcome
<1>7. /\ o.sess \in Session /\ o.sess.n = sess.n /\ o.resp = p.resp
      /\ o.be = IF response_ok(p.resp) THEN p.be ELSE queuedir_reset(p.be)
  <2>1. p.resp \in {"busy", "none", "temp", "perm"}
    BY <1>6
  <2> QED BY <1>1, <1>5, <2>1, Ended
<1>8. CASE /\ p.resp = "busy" /\ p.be.phase # "idle" /\ EndIsSafe(p.be, Formats(mail))
           /\ Files(p.be, mail, Formats(mail), IF Linking(p.be) THEN be.n ELSE 0)
  <2>1. o.be = p.be
    BY <1>7, <1>8 DEF response_ok
  <2> QED BY <1>2, <1>3, <1>4, <1>6, <1>7, <1>8, <2>1, AnswersPreserve
<1>9. CASE /\ p.resp = "none" /\ ~ p.be.tlen /\ ~ p.be.dlen /\ p.be.phase = "idle"
           /\ p.be.tmp = {} /\ Files(p.be, mail, Formats(mail), be.n) /\ Lasting(p.be, be.n)
  <2>1. o.be = p.be /\ response_ok(o.resp)
    BY <1>7, <1>9 DEF response_ok
  <2> QED BY <1>2, <1>3, <1>4, <1>6, <1>7, <1>9, <2>1, AnswersPreserve
<1>10. CASE p.resp = "temp" /\ Clear(p.be, mail, Formats(mail), now)
  <2>1. queuedir_reset(p.be) = p.be
    BY <1>10, ResetAgain DEF Clear, Directory
  <2>2. o.be = p.be /\ ~ response_ok(o.resp) /\ o.resp # "busy"
    BY <1>7, <1>10, <2>1 DEF response_ok
  <2> QED BY <1>2, <1>3, <1>4, <1>7, <1>10, <2>2, AnswersPreserve DEF Clear
<1> QED BY <1>6, <1>8, <1>9, <1>10


-----------------------------------------------------------------------------
(* The world outside                                                       *)

\* A file is taken out of new/, at any moment.
LEMMA TakenPreserves ==
  ASSUME Inductive, Taken
  PROVE  Inductive'
<1>1. PICK c \in Takes(be) : be' = c /\ be.fate # "down"
  BY DEF Taken
<1>2. UNCHANGED <<pc, saw_mail, saw_rcpt, sess, rcpts, offer, mail>>
  BY DEF Taken
<1>3. Directory(be) /\ Files(be, mail, Formats(mail), Now(pc, sess, be))
  BY DEF Inductive, Holds
<1>4. /\ Directory(c) /\ (Live(be) => Live(c)) /\ Files(c, mail, Formats(mail), Now(pc, sess, be))
      /\ Stored(c) = Stored(be)
      /\ \A k : Lasting(be, k) => Lasting(c, k)
      /\ c.name = be.name /\ c.tlen = be.tlen /\ c.dlen = be.dlen /\ c.out = be.out
      /\ c.tmpfd = be.tmpfd /\ c.n = be.n /\ c.phase = be.phase /\ c.sync = be.sync
      /\ c.tmp = be.tmp /\ c.fate = be.fate
  BY <1>1, <1>3, TakesOutcome
<1>5. Now(pc, sess, c) = Now(pc, sess, be)
  BY <1>4 DEF Now, Linking
<1>6. \A D : Writes(be, D) => Writes(c, D)
  BY <1>4 DEF Writes
<1>7. EnvelopeIsOffer(be, offer) => EnvelopeIsOffer(c, offer)
  BY <1>4, <1>6 DEF EnvelopeIsOffer
<1>8. BodyIsWritten(pc, sess, be, mail) => BodyIsWritten(pc, sess, c, mail)
  BY <1>4, <1>6 DEF BodyIsWritten
<1>9. EndIsSafe(be, Formats(mail)) => EndIsSafe(c, Formats(mail))
  BY <1>4, <1>6 DEF EndIsSafe
<1>10. Arriving(sess, be, mail) => Arriving(sess, c, mail)
  BY <1>4 DEF Arriving
<1>11. Holds(pc, saw_mail, sess, c, offer, mail)
  BY <1>4, <1>5, <1>7, <1>8, <1>9, <1>10 DEF Inductive, Holds
<1> QED BY <1>1, <1>2, <1>11 DEF Inductive

\* A kill leaves the directory as it is, and what the kill leaves of tmp/ stays.
LEMMA KilledPreserves ==
  ASSUME Inductive, Killed
  PROVE  Inductive'
<1>1. PICK c : c = [be EXCEPT !.fate = "killed"]
  OBVIOUS
<1>2. /\ pc # "closed" /\ pc' = "closed" /\ be' = c /\ mail' = MailCut
      /\ UNCHANGED <<saw_mail, saw_rcpt, sess, rcpts, offer>>
  BY <1>1 DEF Killed
<1>3. /\ be \in QueuedirState /\ Directory(be) /\ Live(be)
      /\ Files(be, mail, Formats(mail), Now(pc, sess, be))
      /\ saw_mail \in BOOLEAN /\ sess \in Session /\ offer \in Offer
  BY <1>2, WhileOpen
<1>4. /\ c \in QueuedirState /\ c.fate = "killed" /\ c.new = be.new /\ c.taken = be.taken
      /\ c.sync = be.sync /\ c.name = be.name
  BY <1>1, <1>3 DEF QueuedirState
<1>5. Directory(c)
  BY <1>3, <1>4 DEF Directory, Live
<1>6. Files(c, mail, Formats(mail), Now(pc, sess, be))
  BY <1>3, <1>4 DEF Files, Live, Promised, Stored, Lasting
<1>7. /\ MailCut \in [Number -> Mail] /\ Fresh(sess, MailCut)
      /\ Files(c, MailCut, Formats(MailCut), 0)
  BY <1>2, <1>5, <1>6, CutIsSettled
<1>8. PICK cut : cut = MailCut
  OBVIOUS
<1>9. Holds("closed", saw_mail, sess, c, offer, cut)
  BY <1>3, <1>4, <1>5, <1>7, <1>8, ClosedHolds
<1> QED BY <1>2, <1>8, <1>9 DEF Inductive

\* A power failure, during the session or after it.
LEMMA PowerLostPreserves ==
  ASSUME Inductive, PowerLost
  PROVE  Inductive'
<1>1. PICK c \in PowerFails(be) : be' = c /\ be.fate # "down"
  BY DEF PowerLost
<1>2. /\ pc' = "closed" /\ mail' = (IF pc = "closed" THEN mail ELSE MailCut)
      /\ UNCHANGED <<saw_mail, saw_rcpt, sess, rcpts, offer>>
  BY DEF PowerLost
<1>3. /\ Directory(be) /\ Files(be, mail, Formats(mail), Now(pc, sess, be))
      /\ saw_mail \in BOOLEAN /\ sess \in Session /\ offer \in Offer
      /\ mail \in [Number -> Mail] /\ Fresh(sess, mail)
  BY DEF Inductive, Holds
<1>4. Directory(c) /\ Files(c, mail, Formats(mail), Now(pc, sess, be)) /\ c.fate = "down"
  BY <1>1, <1>3, PowerFailsOutcome
<1>5. CASE pc = "closed"
  <2>1. Files(c, mail, Formats(mail), 0)
    BY <1>4, <1>5 DEF Now
  <2>2. Holds("closed", saw_mail, sess, c, offer, mail)
    BY <1>3, <1>4, <2>1, ClosedHolds
  <2> QED BY <1>1, <1>2, <1>5, <2>2 DEF Inductive
<1>6. CASE pc # "closed"
  <2>1. /\ MailCut \in [Number -> Mail] /\ Fresh(sess, MailCut)
        /\ Files(c, MailCut, Formats(MailCut), 0)
    BY <1>4, <1>6, CutIsSettled
  <2>2. PICK cut : cut = MailCut
    OBVIOUS
  <2>3. Holds("closed", saw_mail, sess, c, offer, cut)
    BY <1>3, <1>4, <2>1, <2>2, ClosedHolds
  <2> QED BY <1>1, <1>2, <1>6, <2>2, <2>3 DEF Inductive
<1> QED BY <1>5, <1>6

-----------------------------------------------------------------------------
(* The theorems                                                            *)

\* A session starts with an empty directory.
LEMMA InitEstablishes ==
  ASSUME Init
  PROVE  Inductive
<1>1. PICK sync \in BOOLEAN : SmtpInit(QueuedirInit(sync))
  BY DEF Init
<1>2. PICK need \in NeedsFile : sess = NewSession(need)
  BY <1>1 DEF SmtpInit
<1>3. /\ pc = "command" /\ saw_mail = FALSE /\ saw_rcpt = FALSE /\ be = QueuedirInit(sync)
      /\ rcpts = 0 /\ offer = NoOffer /\ mail = [n \in Number |-> NoMail]
  BY <1>1 DEF SmtpInit
<1>4. sess \in Session /\ sess.n = 0
  BY <1>2, SmtpQueuedirAssumption DEF NewSession, Session, SmtpParameters
<1>5. NoOffer \in Offer /\ NoMail \in Mail
  BY DEF NoOffer, Offer, NoMail, Mail, Verdict
<1>6. mail \in [Number -> Mail] /\ \A k \in Number : mail[k].verdict = "none"
  BY <1>3, <1>5 DEF NoMail
<1>7. /\ be.fate = "up" /\ be.tmp = {} /\ be.new = {} /\ be.taken = {}
      /\ ~ be.tlen /\ ~ be.dlen /\ be.phase = "idle"
  BY <1>3 DEF QueuedirInit
<1>8. be \in QueuedirState
  <2>1. /\ 0 \in Nat /\ 0 \in 0 .. MaxMessages /\ {} \in SUBSET File /\ {} \in SUBSET Clock
        /\ Closed \in [st : {"closed", "open", "bad"}, data : Seq(Item)]
    BY QueuedirAssumption DEF Closed
  <2> QED BY <1>3, <2>1 DEF QueuedirInit, QueuedirState
<1>9. Directory(be) /\ Live(be)
  BY <1>7, <1>8 DEF Directory, Live, Linking
<1>10. Files(be, mail, Formats(mail), 0)
  BY <1>6, <1>7, Parameters DEF Files, Stored
<1>11. Fresh(sess, mail)
  BY <1>6 DEF Fresh
<1>12. Holds("command", FALSE, sess, be, offer, mail)
  BY <1>3, <1>4, <1>5, <1>6, <1>7, <1>9, <1>10, <1>11, CommandHolds
<1> QED BY <1>3, <1>12 DEF Inductive

\* Every step of the session and of the world keeps the invariant.
LEMMA NextPreserves ==
  ASSUME Inductive, [Next]_vars
  PROVE  Inductive'
<1>1. CASE HELO \/ RSET
  BY <1>1, ResetsPreserve
<1>2. CASE ResetFails \/ Leave \/ Alarm
  BY <1>2, EndsPreserve
<1>3. ASSUME NEW a \in Address, MAIL(a) \/ RCPT(a)
      PROVE  Inductive'
  BY <1>3, MailPreserves, RcptPreserves
<1>4. CASE DATA
  BY <1>4, DataPreserves
<1>5. CASE BlockArrives
  BY <1>5, BlockArrivesPreserves
<1>6. CASE BlockHandled
  BY <1>6, BlockHandledPreserves
<1>7. CASE EndOfBody
  BY <1>7, EndOfBodyPreserves
<1>8. CASE EndGoesOn
  BY <1>8, EndGoesOnPreserves
<1>9. CASE Taken
  BY <1>9, TakenPreserves
<1>10. CASE Killed
  BY <1>10, KilledPreserves
<1>11. CASE PowerLost
  BY <1>11, PowerLostPreserves
<1>12. CASE UNCHANGED vars
  BY <1>12 DEF vars, Inductive
<1> QED BY <1>1, <1>2, <1>3, <1>4, <1>5, <1>6, <1>7, <1>8, <1>9, <1>10, <1>11, <1>12
        DEF Next, SmtpNext

\* The invariant holds of every session.
THEOREM InductiveAlways == Spec => []Inductive
<1>1. Init => Inductive
  BY InitEstablishes
<1>2. Inductive /\ [Next]_vars => Inductive'
  BY NextPreserves
<1> QED BY <1>1, <1>2, PTL DEF Spec

\* The state has its type, at every point of every session.
THEOREM TypeCorrect == Spec => []TypeOK
<1>1. Inductive => TypeOK
  BY DEF Inductive, Holds, Places, Directory, TypeOK
<1> QED BY <1>1, InductiveAlways, PTL

(***************************************************************************)
(* Whatever is killed, fails or loses its power, and whenever: a file of   *)
(* new/, or taken from there, is a whole message, with the envelope the    *)
(* client was told is accepted.                                            *)
(***************************************************************************)
THEOREM NewAlwaysWhole == Spec => []NewIsWhole
<1>1. Inductive => NewIsWhole
  <2> SUFFICES ASSUME Inductive, Promised(be), NEW f \in Stored(be)
               PROVE  f.data = Format(mail[f.of])
    BY DEF NewIsWhole, StoredIsWhole
  <2>1. be \in QueuedirState /\ Files(be, mail, Formats(mail), Now(pc, sess, be))
    BY DEF Inductive, Holds, Directory
  <2>2. f.of \in Number /\ f.data \in Formats(mail)[f.of]
    BY <2>1, FilesAreOfMessages, Parameters DEF Files
  <2> QED BY <2>2 DEF Formats
<1> QED BY <1>1, InductiveAlways, PTL

\* A message the client was told is accepted is stored, and stays stored.
THEOREM AckedAlwaysInNew == Spec => []AckedIsInNew
<1>1. Inductive => AckedIsInNew
  BY DEF Inductive, Holds, Files, Lasting, Stored, AckedIsInNew, AcceptedIsStored
<1> QED BY <1>1, InductiveAlways, PTL

\* A message that was refused, or did not come whole, is not in new/.
THEOREM RefusedNeverInNew == Spec => []RefusedIsNotInNew
<1>1. Inductive => RefusedIsNotInNew
  <2> SUFFICES ASSUME Inductive, be.fate # "down", NEW f \in be.new
               PROVE  mail[f.of].verdict \notin {"nak", "cut"}
    BY DEF RefusedIsNotInNew, RefusedIsRemoved
  <2>1. be \in QueuedirState /\ Files(be, mail, Formats(mail), Now(pc, sess, be))
    BY DEF Inductive, Holds, Directory
  <2>2. f.of # 0
    BY <2>1, FilesAreOfMessages DEF Stored
  <2>3. mail[f.of].verdict \in {"ack", "unknown"} \/ f.of = Now(pc, sess, be)
    BY <2>1 DEF Files
  <2>4. f.of = Now(pc, sess, be) => mail[f.of].verdict = "open"
    BY <2>2 DEF Now, Inductive, Holds, Arriving
  <2> QED BY <2>3, <2>4
<1> QED BY <1>1, InductiveAlways, PTL

\* A session that was not killed has left nothing in tmp/.
THEOREM TmpAlwaysClean == Spec => []TmpIsClean
<1>1. Inductive => TmpIsClean
  BY DEF Inductive, Holds, TmpIsClean, NothingLeftInTmp
<1> QED BY <1>1, InductiveAlways, PTL


-----------------------------------------------------------------------------
(***************************************************************************)
(* The session implements Submission.                                      *)
(***************************************************************************)

SameVerdicts == \A k \in Message : mail'[k].verdict = mail[k].verdict

\* The client is told v of message n, or would be, and nothing of another.
Tells(n, v) ==
  /\ mail'[n].verdict = v
  /\ \A k \in Message : k # n => mail'[k].verdict = mail[k].verdict
  /\ \/ mail[n].verdict = "none" /\ v \in {"open", "nak"}
     \/ mail[n].verdict = "open" /\ v \in {"ack", "nak", "cut", "unknown"}

\* What a step that is neither a link nor a power failure is to Submission.
Dialogue ==
  \/ SameVerdicts /\ SameStore(be, be')
  \/ \E n \in Message, v \in {"open", "ack"} :
       Tells(n, v) /\ SameStore(be, be') /\ pc' # "closed"
  \/ \E n \in Message : Tells(n, "nak") /\ MayRemove(be, be', n)
  \/ \E n \in Message, v \in {"cut", "unknown"} :
       Tells(n, v) /\ MayRemove(be, be', n) /\ pc' = "closed"

\* After the end nothing is stored that was cut short, and before it all that was
\* accepted.
LEMMA StoreIsTold ==
  ASSUME NEW p, NEW sm, NEW s, NEW b, NEW o, NEW m, Holds(p, sm, s, b, o, m),
         NEW n \in Message
  PROVE  /\ p = "closed" /\ m[n].verdict = "cut" => n \notin StoredMessages(b)
         /\ p # "closed" /\ m[n].verdict = "ack" => n \in StoredMessages(b)
<1>1. Files(b, m, Formats(m), Now(p, s, b)) /\ b \in QueuedirState
  BY DEF Holds, Directory
<1>2. ASSUME p = "closed", m[n].verdict = "cut"
      PROVE  n \notin StoredMessages(b)
  <2>1. \A f \in Stored(b) : m[f.of].verdict \in {"ack", "nak", "unknown"}
    BY <1>1, <1>2, FilesAreOfMessages DEF Files, Now
  <2> QED BY <1>2, <2>1 DEF StoredMessages
<1>3. ASSUME p # "closed", m[n].verdict = "ack"
      PROVE  n \in StoredMessages(b)
  <2>1. Promised(b)
    BY <1>3 DEF Holds, Live, Promised
  <2>2. Lasting(b, n)
    BY <1>1, <1>3, <2>1 DEF Files
  <2> QED BY <2>2 DEF Lasting, StoredMessages, Stored
<1> QED BY <1>2, <1>3

\* Such a step is one of Submission's, or changes nothing of it.
LEMMA DialogueImplements ==
  ASSUME Dialogue, Inductive'
  PROVE  [Promise!Next]_(Promise!vars)
<1>1. \A n \in Message :
        /\ pc' = "closed" /\ mail'[n].verdict = "cut" => n \notin StoredMessages(be')
        /\ pc' # "closed" /\ mail'[n].verdict = "ack" => n \in StoredMessages(be')
  BY StoreIsTold DEF Inductive
<1>2. CASE SameVerdicts /\ SameStore(be, be')
  BY <1>2 DEF SameVerdicts, SameStore, Promise!vars
<1>3. ASSUME NEW n \in Message, NEW v \in {"open", "ack"},
             Tells(n, v), SameStore(be, be'), pc' # "closed"
      PROVE  Promise!Next
  <2>1. Promise!Tells(n, v)
    BY <1>3 DEF Tells, Promise!Tells
  <2>2. StoredMessages(be') = StoredMessages(be) /\ Promised(be') = Promised(be)
    BY <1>3 DEF SameStore
  <2>3. CASE v = "open"
    BY <1>3, <2>1, <2>2, <2>3 DEF Tells, Promise!Submit, Promise!Next
  <2>4. CASE v = "ack"
    <3>1. n \in StoredMessages(be') /\ mail[n].verdict = "open"
      BY <1>1, <1>3, <2>4 DEF Tells
    <3> QED BY <2>1, <2>2, <2>4, <3>1 DEF Promise!Accept, Promise!Next
  <2> QED BY <2>3, <2>4
<1>4. ASSUME NEW n \in Message, Tells(n, "nak"), MayRemove(be, be', n)
      PROVE  Promise!Next
  <2>1. Promise!Tells(n, "nak") /\ mail[n].verdict \in {"none", "open"}
    BY <1>4 DEF Tells, Promise!Tells
  <2> QED BY <1>4, <2>1 DEF MayRemove, Promise!Refuse, Promise!MayDrop, Promise!Next
<1>5. ASSUME NEW n \in Message, NEW v \in {"cut", "unknown"},
             Tells(n, v), MayRemove(be, be', n), pc' = "closed"
      PROVE  Promise!Next
  <2>1. Promise!Tells(n, v) /\ mail[n].verdict = "open"
    BY <1>5 DEF Tells, Promise!Tells
  <2>2. v = "cut" => n \notin StoredMessages(be')
    BY <1>1, <1>5 DEF Tells
  <2>3. Promise!Cut(n)
    BY <2>1, <2>2 DEF Promise!Cut
  <2> QED BY <1>5, <2>3 DEF MayRemove, Promise!Lose, Promise!MayDrop, Promise!Next
<1> QED BY <1>2, <1>3, <1>4, <1>5 DEF Dialogue

\* A reset between messages, or while one arrives, removes nothing of the store.
LEMMA ResetStoresNothing ==
  ASSUME Inductive, pc \notin {"ending", "closed"}
  PROVE  /\ SameStore(be, queuedir_reset(be))
         /\ \A c : Leaves(be, c) /\ c.phase = be.phase
              => SameStore(be, c) /\ SameStore(be, queuedir_reset(c))
<1>1. SameStore(be, queuedir_reset(be))
  BY WhileOpen, ResetStores
<1>2. ASSUME NEW c, Leaves(be, c), c.phase = be.phase
      PROVE  SameStore(be, c) /\ SameStore(be, queuedir_reset(c))
  <2>1. Directory(c) /\ Live(c) /\ ~ Linking(c)
    BY <1>2, LeftOrReset DEF Linking
  <2>2. SameStore(c, queuedir_reset(c))
    BY <2>1, ResetStores
  <2>3. SameStore(be, c)
    BY <1>2, StoreStays DEF Leaves
  <2> QED BY <2>2, <2>3 DEF SameStore
<1> QED BY <1>1, <1>2

\* Between messages, and while a body comes, the client is told nothing, nor is
\* anything stored.
LEMMA NothingTold ==
  ASSUME Inductive,
         HELO \/ RSET \/ (\E a \in Address : MAIL(a) \/ RCPT(a)) \/ BlockArrives \/ BlockHandled
  PROVE  Dialogue
<1>1. SameVerdicts
  <2>1. CASE BlockArrives
    <3>1. mail \in [Number -> Mail] /\ mail' = [mail EXCEPT ![sess.n].blocks = @ + 1]
      BY <2>1, WhileOpen DEF BlockArrives
    <3> QED BY <3>1, Parameters DEF SameVerdicts, Mail
  <2>2. CASE mail' = mail
    BY <2>2 DEF SameVerdicts
  <2> QED BY <2>1, <2>2 DEF HELO, RSET, MAIL, RCPT, BlockHandled
<1>2. /\ pc \notin {"ending", "closed"} /\ sess \in Session /\ be \in QueuedirState
      /\ be.phase = "idle"
  BY WhileOpen DEF HELO, RSET, MAIL, RCPT, BlockArrives, BlockHandled
<1>3. SameStore(be, be)
  BY DEF SameStore
<1>4. SameStore(be, be')
  <2>1. CASE HELO \/ RSET
    <3>1. PICK answers : Becomes(handle_reset(sess, be, answers))
      BY <2>1 DEF HELO, RSET
    <3>2. be' = queuedir_reset(be)
      BY <1>2, <3>1, ResetHandled DEF Becomes
    <3> QED BY <1>2, <3>2, ResetStoresNothing
  <2>2. ASSUME NEW a \in Address, MAIL(a)
        PROVE  SameStore(be, be')
    <3>1. PICK c : c = queuedir_reset(be)
      OBVIOUS
    <3>2. PICK resets \in Chains, answers \in Chains :
            LET r == handle_reset(sess, be, resets)
            IN  \E o \in handle_sender(r.sess, r.be, a, answers) : Becomes(o)
      BY <2>2 DEF MAIL
    <3>3. handle_reset(sess, be, resets).be = c
      BY <1>2, <3>1, ResetHandled
    <3>4. PICK s, o : o \in handle_sender(s, c, a, answers) /\ Becomes(o)
      BY <3>2, <3>3
    <3>5. \/ be' = c
          \/ \E p \in queuedir_sender(c, a) : be' = p.be
      BY <3>4, SenderHandled DEF Becomes
    <3>6. SameStore(be, c) /\ Clear(c, mail, Formats(mail), Now(pc, sess, be))
      BY <1>2, <3>1, ResetStoresNothing, ResetIsClear
    <3>7. ASSUME NEW p \in queuedir_sender(c, a)
          PROVE  SameStore(c, p.be)
      <4>1. /\ p.be.new = c.new /\ p.be.taken = c.taken
            /\ p.be.sync = c.sync /\ p.be.fate = c.fate
        BY <3>6, SenderOutcome DEF Clear
      <4> QED BY <4>1, StoreStays
    <3> QED BY <3>5, <3>6, <3>7 DEF SameStore
  <2>3. ASSUME NEW a \in Address, RCPT(a)
        PROVE  SameStore(be, be')
    <3>1. PICK answers \in Chains : \E o \in handle_recipient(sess, be, a, answers) : Becomes(o)
      BY <2>3 DEF RCPT
    <3>2. PICK o \in handle_recipient(sess, be, a, answers) : be' = o.be
      BY <3>1 DEF Becomes
    <3>3. \/ be' = be
          \/ \E p \in queuedir_recipient(be, a) : be' = p.be
      BY <3>2, RecipientHandled
    <3>4. ASSUME NEW p \in queuedir_recipient(be, a)
          PROVE  SameStore(be, p.be)
      <4>1. Leaves(be, p.be)
        BY <1>2, RecipientOutcome
      <4> QED BY <4>1, StoreStays DEF Leaves
    <3> QED BY <1>3, <3>3, <3>4
  <2>4. CASE BlockArrives
    BY <1>3, <2>4 DEF BlockArrives
  <2>5. CASE BlockHandled
    <3>1. PICK answers \in Chains : \E o \in handle_data_bytes(sess, be, answers) : Becomes(o)
      BY <2>5 DEF BlockHandled
    <3>2. PICK o \in handle_data_bytes(sess, be, answers) : be' = o.be
      BY <3>1 DEF Becomes
    <3>3. answers \in Seq(Response)
      BY Parameters
    <3>4. \/ be' = be
          \/ be' = queuedir_reset(be)
          \/ \E p \in queuedir_data_block(be) : be' = queuedir_reset(p.be) \/ be' = p.be
      BY <1>2, <3>2, <3>3, DataBytesHandled
    <3>5. ASSUME NEW p \in queuedir_data_block(be)
          PROVE  SameStore(be, p.be) /\ SameStore(be, queuedir_reset(p.be))
      <4>1. Leaves(be, p.be) /\ p.be.phase = be.phase
        BY <1>2, DataBlockOutcome
      <4> QED BY <1>2, <4>1, ResetStoresNothing
    <3> QED BY <1>2, <1>3, <3>4, <3>5, ResetStoresNothing
  <2> QED BY <2>1, <2>2, <2>3, <2>4, <2>5
<1> QED BY <1>1, <1>4 DEF Dialogue


\* The next message is begun, or refused at once, and nothing is stored of it.
LEMMA DataTells ==
  ASSUME Inductive, DATA
  PROVE  Dialogue
<1> DEFINE v(r) == IF response_ok(r) THEN "open" ELSE "nak"
           x(r) == [offer |-> offer, blocks |-> 0, verdict |-> v(r)]
<1>1. PICK n : n = sess.n + 1
  OBVIOUS
<1>2. /\ pc = "command" /\ sess \in Session /\ mail \in [Number -> Mail] /\ Fresh(sess, mail)
      /\ be \in QueuedirState /\ be.phase = "idle" /\ sess.n < MaxMessages
  BY WhileOpen DEF DATA
<1>3. n \in Number /\ n \in Message /\ n > sess.n
  BY <1>1, <1>2, Parameters DEF Session, Number
<1>4. PICK answers \in Chains : \E o \in handle_data_start(sess, be, answers) :
        /\ Becomes(o)
        /\ pc' = IF response_ok(o.resp) THEN "body" ELSE "command"
        /\ mail' = [mail EXCEPT ![o.sess.n] = x(o.resp)]
  BY DEF DATA
<1>5. PICK o \in handle_data_start(sess, be, answers) :
        /\ be' = o.be
        /\ pc' = IF response_ok(o.resp) THEN "body" ELSE "command"
        /\ mail' = [mail EXCEPT ![o.sess.n] = x(o.resp)]
  BY <1>4 DEF Becomes
<1>6. /\ o.sess.n = n
      /\ \/ o.be = be
         \/ \E fd : \E p \in queuedir_data_start(be, fd, n) :
              o.be = queuedir_reset(p.be) \/ o.be = p.be
  BY <1>1, <1>2, <1>5, DataStartHandled
<1>7. SameStore(be, be')
  <2>1. ASSUME NEW fd, NEW p \in queuedir_data_start(be, fd, n)
        PROVE  SameStore(be, p.be) /\ SameStore(be, queuedir_reset(p.be))
    <3>1. Leaves(be, p.be) /\ p.be.phase = be.phase
      BY <1>2, <1>3, DataStartOutcome
    <3> QED BY <1>2, <3>1, ResetStoresNothing
  <2>2. SameStore(be, be)
    BY DEF SameStore
  <2> QED BY <1>5, <1>6, <2>1, <2>2
<1>8. PICK w : w = v(o.resp)
  OBVIOUS
<1>9. w \in {"open", "nak"} /\ pc' # "closed"
  BY <1>5, <1>8
<1>10. mail[n].verdict = "none"
  BY <1>2, <1>3 DEF Fresh
<1>11. mail'[n].verdict = w /\ \A k \in Message : k # n => mail'[k] = mail[k]
  BY <1>2, <1>3, <1>5, <1>6, <1>8, Parameters
<1>12. Tells(n, w)
  BY <1>9, <1>10, <1>11 DEF Tells
<1> QED BY <1>3, <1>7, <1>9, <1>12 DEF Dialogue, MayRemove, SameStore

\* A message under way is answered, or the session ends after it.
LEMMA SettlingTells ==
  ASSUME Inductive, pc \in {"body", "block", "ending"}, NEW v \in Verdict \ {"none", "open"},
         mail' = [mail EXCEPT ![sess.n].verdict = v]
  PROVE  sess.n \in Message /\ Tells(sess.n, v)
<1>1. PICK n : n = sess.n
  OBVIOUS
<1>2. n \in Message /\ mail[n].verdict = "open" /\ mail \in [Number -> Mail] /\ Number = Message
  BY <1>1, WhileOpen, Parameters DEF Inductive, Holds, Arriving
<1>3. mail' = Answered(mail, n, v)
  BY <1>1 DEF Answered
<1>4. mail'[n].verdict = v /\ \A k \in Message : k # n => mail'[k] = mail[k]
  BY <1>2, <1>3, VerdictGiven
<1>5. v \in {"ack", "nak", "cut", "unknown"}
  BY DEF Verdict
<1> QED BY <1>1, <1>2, <1>4, <1>5 DEF Tells

\* An answer that leaves the store alone, or a refusal that may remove the message.
LEMMA AnswersTell ==
  ASSUME Inductive, pc \in {"body", "ending"}, NEW o, Answers(o),
         IF o.resp # "busy" /\ ~ response_ok(o.resp) THEN MayRemove(be, o.be, sess.n)
         ELSE SameStore(be, o.be)
  PROVE  Dialogue
<1>1. be' = o.be
  BY DEF Answers, Becomes
<1>2. CASE o.resp = "busy"
  BY <1>1, <1>2 DEF Answers, Dialogue, SameVerdicts
<1>3. CASE o.resp # "busy"
  <2>1. PICK v : v = IF response_ok(o.resp) THEN "ack" ELSE "nak"
    OBVIOUS
  <2>2. v \in {"ack", "nak"} /\ v \in Verdict \ {"none", "open"}
    BY <2>1 DEF Verdict
  <2>3. pc' = "command" /\ mail' = [mail EXCEPT ![sess.n].verdict = v]
    BY <1>3, <2>1 DEF Answers
  <2>4. sess.n \in Message /\ Tells(sess.n, v)
    BY <2>2, <2>3, SettlingTells
  <2>5. (v = "ack" => SameStore(be, be')) /\ (v = "nak" => MayRemove(be, be', sess.n))
    BY <1>1, <1>3, <2>1
  <2> QED BY <2>2, <2>3, <2>4, <2>5 DEF Dialogue
<1> QED BY <1>2, <1>3

\* Nothing is stored when the end of a message begins.
LEMMA EndOfBodyTells ==
  ASSUME Inductive, EndOfBody
  PROVE  Dialogue
<1>1. sess \in Session /\ be \in QueuedirState /\ pc = "body"
  BY WhileOpen DEF EndOfBody
<1>2. PICK answers \in Chains : \E o \in handle_message_end(sess, be, answers) : Answers(o)
  BY DEF EndOfBody
<1>3. PICK o \in handle_message_end(sess, be, answers) : Answers(o)
  BY <1>2
<1>4. \/ o.be = be
      \/ o.be = queuedir_reset(be)
      \/ \E p \in queuedir_message_end(be, sess.fd, sess.file) :
           o.be = IF response_ok(p.resp) THEN p.be ELSE queuedir_reset(p.be)
  BY <1>1, <1>3, MessageEndHandled
<1>5. ASSUME NEW p \in queuedir_message_end(be, sess.fd, sess.file)
      PROVE  /\ response_ok(p.resp) => SameStore(be, p.be)
             /\ ~ response_ok(p.resp) => SameStore(be, queuedir_reset(p.be))
  <2>1. /\ Leaves(be, p.be)
        /\ p.resp = "busy" \/ p.be.phase = be.phase
    BY <1>1, MessageEndOutcome
  <2>2. SameStore(be, p.be)
    BY <2>1, StoreStays DEF Leaves
  <2> QED BY <1>1, <2>1, <2>2, ResetStoresNothing DEF response_ok
<1>6. SameStore(be, o.be)
  <2>1. SameStore(be, be)
    BY DEF SameStore
  <2> QED BY <1>1, <1>4, <1>5, <2>1, ResetStoresNothing
<1> QED BY <1>1, <1>3, <1>6, AnswersTell DEF MayRemove, SameStore

\* A step of message_end stores the message, or answers it; the client hears of a
\* failure after the file is removed.
LEMMA EndGoesOnImplements ==
  ASSUME Inductive, EndGoesOn, Inductive'
  PROVE  [Promise!Next]_(Promise!vars)
<1>1. PICK now : now = Now(pc, sess, be)
  OBVIOUS
<1>2. /\ Files(be, mail, Formats(mail), now) /\ Current(be, mail, now)
      /\ Directory(be) /\ Live(be) /\ sess \in Session
  BY <1>1, WhileOpen DEF EndGoesOn
<1>3. /\ pc = "ending" /\ be.phase # "idle" /\ EndIsSafe(be, Formats(mail))
      /\ be.n = sess.n /\ be.n \in Message /\ mail[be.n].verdict = "open"
  BY Parameters DEF EndGoesOn, Inductive, Holds, Arriving
<1>4. PICK o \in handle_message_end_goes_on(sess, be) : Answers(o)
  BY DEF EndGoesOn
<1>5. PICK p \in queuedir_message_end_goes_on(be) : o = MessageEnded(sess, p.be, p.resp)
  BY <1>4 DEF handle_message_end_goes_on
<1>6. \/ p.resp = "busy" /\ MayAdd(be, p.be, be.n)
      \/ p.resp = "none" /\ SameStore(be, p.be)
      \/ p.resp = "temp" /\ MayRemove(be, p.be, be.n)
  BY <1>2, <1>3, GoesOnStores
<1>7. p.resp = "temp" => queuedir_reset(p.be) = p.be
  <2>1. p.resp = "temp" => Clear(p.be, mail, Formats(mail), now)
    BY <1>2, <1>3, GoesOnOutcome
  <2> QED BY <2>1, ResetAgain DEF Clear, Directory
<1>8. o.resp = p.resp /\ o.be = p.be
  <2>1. o.resp = p.resp /\ o.be = IF response_ok(p.resp) THEN p.be ELSE queuedir_reset(p.be)
    BY <1>2, <1>5, <1>6, Ended
  <2> QED BY <1>6, <1>7, <2>1 DEF response_ok
<1>9. CASE p.resp = "busy" /\ MayAdd(be, p.be, be.n)
  <2>1. mail' = mail /\ be' = p.be
    BY <1>4, <1>8, <1>9 DEF Answers, Becomes
  <2>2. CASE StoredMessages(be') = StoredMessages(be)
    BY <1>9, <2>1, <2>2 DEF MayAdd, Promise!vars
  <2>3. CASE StoredMessages(be') = StoredMessages(be) \cup {be.n}
    <3>1. Promise!Store(be.n)
      BY <1>3, <1>9, <2>1, <2>3 DEF MayAdd, Promise!Store
    <3> QED BY <1>3, <3>1 DEF Promise!Next
  <2> QED BY <1>9, <2>1, <2>2, <2>3 DEF MayAdd
<1>10. CASE p.resp # "busy"
  <2>1. Dialogue
    BY <1>3, <1>4, <1>6, <1>8, <1>10, AnswersTell DEF response_ok
  <2> QED BY <2>1, DialogueImplements
<1> QED BY <1>6, <1>9, <1>10

\* The end of the session removes what is linked and not answered.
LEMMA EndsTell ==
  ASSUME Inductive, Leave \/ Alarm \/ ResetFails \/ Killed
  PROVE  Dialogue
<1>1. /\ pc # "closed" /\ pc' = "closed" /\ mail' = MailCut
      /\ pc \in Places /\ sess \in Session /\ be \in QueuedirState /\ Directory(be) /\ Live(be)
  <2>1. pc # "closed" /\ pc' = "closed" /\ mail' = MailCut
    BY DEF Leave, Alarm, ResetFails, Killed, Exits, MailCut
  <2> QED BY <2>1, WhileOpen DEF Inductive, Holds
<1>2. /\ MayRemove(be, be', be.n)
      /\ pc = "command" => SameStore(be, be')
  <2>1. CASE Killed
    <3>1. PICK c : c = [be EXCEPT !.fate = "killed"]
      OBVIOUS
    <3>2. /\ be' = c /\ c.new = be.new /\ c.taken = be.taken /\ c.fate # "down"
          /\ be.fate # "down"
      BY <1>1, <2>1, <3>1 DEF Killed, QueuedirState, Live
    <3> QED BY <3>2 DEF MayRemove, SameStore, StoredMessages, Stored, Promised
  <2>2. CASE Leave \/ Alarm \/ ResetFails
    <3>1. be' = queuedir_reset(be)
      <4>1. CASE Leave \/ Alarm
        BY <1>1, <4>1, ResetHandled DEF Leave, Alarm, Exits, Becomes, Outcome
      <4>2. CASE ResetFails
        <5>1. PICK answers \in Chains : Exits(handle_reset(sess, be, answers))
          BY <4>2 DEF ResetFails
        <5>2. PICK o : o = handle_reset(sess, be, answers)
          OBVIOUS
        <5>3. PICK c : c = queuedir_reset(be)
          OBVIOUS
        <5>4. o.sess \in Session /\ o.be = c
          BY <1>1, <5>2, <5>3, ResetHandled
        <5>5. be' = queuedir_reset(c)
          <6>1. be' = exitfn(o.sess, o.be).be
            BY <5>1, <5>2 DEF Exits, Becomes
          <6> QED BY <5>4, <6>1, ResetHandled
        <5>6. c \in QueuedirState /\ Clear(c, mail, Formats(mail), Now(pc, sess, be))
          BY <1>1, <5>3, ResetIsClear
        <5> QED BY <5>3, <5>5, <5>6, ResetAgain DEF Clear
      <4> QED BY <2>2, <4>1, <4>2
    <3> QED BY <1>1, <3>1, ResetStores, ResetStoresNothing
  <2> QED BY <2>1, <2>2
<1>3. CASE pc = "command"
  BY <1>1, <1>2, <1>3 DEF MailCut, Dialogue, SameVerdicts
<1>4. CASE pc # "command"
  <2>1. PICK v \in {"cut", "unknown"} : v = IF pc = "ending" THEN "unknown" ELSE "cut"
    OBVIOUS
  <2>2. mail' = [mail EXCEPT ![sess.n].verdict = v]
    BY <1>1, <1>4, <2>1 DEF MailCut
  <2>3. v \in Verdict \ {"none", "open"} /\ pc \in {"body", "block", "ending"}
    BY <1>1, <1>4 DEF Verdict, Places
  <2>4. sess.n \in Message /\ Tells(sess.n, v) /\ be.n = sess.n
    BY <2>2, <2>3, SettlingTells DEF Inductive, Holds, Arriving
  <2> QED BY <1>1, <1>2, <2>1, <2>4 DEF Dialogue
<1> QED BY <1>3, <1>4

\* What is taken stays stored.
LEMMA TakenTells ==
  ASSUME Inductive, Taken
  PROVE  Dialogue
<1>1. PICK c \in Takes(be) : be' = c /\ be.fate # "down"
  BY DEF Taken
<1>2. Directory(be) /\ Files(be, mail, Formats(mail), Now(pc, sess, be))
  BY DEF Inductive, Holds
<1>3. Stored(c) = Stored(be) /\ c.sync = be.sync /\ c.fate = be.fate
  BY <1>1, <1>2, TakesOutcome
<1> QED BY <1>1, <1>3 DEF Taken, Dialogue, SameVerdicts, SameStore, StoredMessages, Promised

\* A power failure is one of Submission's.
LEMMA PowerLostImplements ==
  ASSUME Inductive, PowerLost, Inductive'
  PROVE  Promise!Next
<1>1. PICK c \in PowerFails(be) : be' = c /\ be.fate # "down"
  BY DEF PowerLost
<1>2. Directory(be) /\ Files(be, mail, Formats(mail), Now(pc, sess, be)) /\ pc \in Places
  BY DEF Inductive, Holds
<1>3. StoredMessages(be') \subseteq StoredMessages(be) /\ Promised(be)
  BY <1>1, <1>2, PowerFailsStores
<1>4. Promised(be') => \A k \in Message : mail[k].verdict = "ack" => k \in StoredMessages(be')
  BY <1>1, <1>2, PowerFailsStores
<1>5. CASE pc \in {"command", "closed"}
  <2>1. mail' = mail
    BY <1>5 DEF PowerLost, MailCut
  <2> QED BY <1>3, <1>4, <2>1 DEF Promise!PowerFails, Promise!Next
<1>6. CASE pc \in {"body", "block", "ending"}
  <2>1. PICK v \in {"cut", "unknown"} : v = IF pc = "ending" THEN "unknown" ELSE "cut"
    OBVIOUS
  <2>2. mail' = [mail EXCEPT ![sess.n].verdict = v]
    BY <1>6, <2>1 DEF PowerLost, MailCut
  <2>3. v \in Verdict \ {"none", "open"}
    BY DEF Verdict
  <2>4. PICK n : n = sess.n
    OBVIOUS
  <2>5. n \in Message /\ Tells(n, v)
    BY <1>6, <2>2, <2>3, <2>4, SettlingTells
  <2>6. v = "cut" => n \notin StoredMessages(be')
    <3>1. pc' = "closed" /\ (v = "cut" => mail'[n].verdict = "cut")
      BY <2>5 DEF PowerLost, Tells
    <3>2. \A k \in Message :
            pc' = "closed" /\ mail'[k].verdict = "cut" => k \notin StoredMessages(be')
      BY StoreIsTold DEF Inductive
    <3> QED BY <2>5, <3>1, <3>2
  <2>7. Promise!Cut(n)
    <3>1. Promise!Tells(n, v) /\ mail[n].verdict = "open"
      BY <2>5 DEF Tells, Promise!Tells
    <3> QED BY <2>5, <2>6, <3>1 DEF Promise!Cut
  <2>8. Promise!PowerFails
    BY <1>3, <1>4, <2>5, <2>7 DEF Promise!PowerFails
  <2> QED BY <2>8 DEF Promise!Next
<1> QED BY <1>2, <1>5, <1>6 DEF Places

\* Every step is one of Submission's or changes nothing of it.
LEMMA NextImplements ==
  ASSUME Inductive, [Next]_vars, Inductive'
  PROVE  [Promise!Next]_(Promise!vars)
<1>1. CASE HELO \/ RSET \/ (\E a \in Address : MAIL(a) \/ RCPT(a)) \/ BlockArrives \/ BlockHandled
  BY <1>1, NothingTold, DialogueImplements
<1>2. CASE DATA
  BY <1>2, DataTells, DialogueImplements
<1>3. CASE EndOfBody
  BY <1>3, EndOfBodyTells, DialogueImplements
<1>4. CASE EndGoesOn
  BY <1>4, EndGoesOnImplements
<1>5. CASE Leave \/ Alarm \/ ResetFails \/ Killed
  BY <1>5, EndsTell, DialogueImplements
<1>6. CASE Taken
  BY <1>6, TakenTells, DialogueImplements
<1>7. CASE PowerLost
  BY <1>7, PowerLostImplements
<1>8. CASE UNCHANGED vars
  BY <1>8 DEF vars, Promise!vars
<1> QED BY <1>1, <1>2, <1>3, <1>4, <1>5, <1>6, <1>7, <1>8 DEF Next, SmtpNext

\* A new session is a new one of Submission's.
LEMMA InitImplements ==
  ASSUME Init
  PROVE  Promise!Init
<1>1. PICK sync \in BOOLEAN : SmtpInit(QueuedirInit(sync))
  BY DEF Init
<1>2. be = QueuedirInit(sync) /\ mail = [n \in Number |-> NoMail]
  BY <1>1 DEF SmtpInit
<1>3. be.new = {} /\ be.taken = {} /\ be.fate = "up"
  BY <1>2 DEF QueuedirInit
<1>4. StoredMessages(be) = {} /\ Promised(be) = TRUE
  BY <1>3 DEF StoredMessages, Stored, Promised
<1>5. \A k \in Message : mail[k].verdict = "none"
  BY <1>2, Parameters DEF NoMail
<1> QED BY <1>4, <1>5 DEF Promise!Init

(***************************************************************************)
(* The session over the directory keeps the promise of Submission: through *)
(* kills, power failures and the consumer, what the client is told of a    *)
(* message is true of the store and stays so.                              *)
(***************************************************************************)
THEOREM Implementation == Spec => ImplementsSubmission
<1>1. Init => Inductive /\ Promise!Init
  BY InitEstablishes, InitImplements
<1>2. Inductive /\ [Next]_vars => Inductive' /\ [Promise!Next]_(Promise!vars)
  BY NextPreserves, NextImplements
<1>3. Spec => Promise!Init /\ [][Promise!Next]_(Promise!vars)
  BY <1>1, <1>2, PTL DEF Spec
<1> QED BY <1>3 DEF ImplementsSubmission, Promise!Spec

=============================================================================
