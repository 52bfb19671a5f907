---------------------------- MODULE SmtpQmail_proof ----------------------------
(***************************************************************************)
(* Proofs about an SMTP session over qmail-queue: only an envelope the     *)
(* client was told is accepted is ever queued, and what becomes of a       *)
(* message is what the client was told.                                    *)
(***************************************************************************)
EXTENDS SmtpQmail, QmailBackend_proof, Responses_proof

USE QmailAssumption

(***************************************************************************)
(* The inductive invariant.  It follows the envelope from the client's     *)
(* commands (offer) through the static buffer to the process that queues   *)
(* it; an envelope that does not open with a sender is never queued, so    *)
(* nothing need be known of it.                                            *)
(***************************************************************************)
Opens(env) == env # <<>> /\ Head(env)[1] = "F"

Active == pc \in {"body", "block", "ending"}

\* The buffer, if it opens with a sender, is what the client was told is accepted.
BufferIsOffer ==
  Opens(be.buf) => offer.from # <<>> /\ be.buf = Envelope(offer)

\* When DATA may be sent, and until the body is whole, it has recipients as well.
OfferHasRecipients ==
  /\ pc = "command" /\ saw_rcpt /\ Opens(be.buf) => offer.to # <<>>
  /\ pc \in {"body", "block"} /\ Opens(be.buf) => offer.to # <<>>

\* The message in hand was started with the offer that still stands.
MessageIsOffer == Active => sess.n \in Number /\ offer = mail[sess.n].offer

\* A body still to be accepted has its process's envelope pipe; another has no envelope.
BodyHasPipe ==
  pc \in {"body", "block"} =>
    IF response_ok(sess.dresp)
    THEN be.epipe = sess.n /\ be.qq[sess.n].env = <<>>
    ELSE be.buf = <<>>

\* What a process is given to read is its message's offer.
EnvelopesAreOffers ==
  \A k \in Message : Opens(be.qq[k].env) =>
    /\ mail[k].offer.to # <<>>
    /\ be.qq[k].env = Append(Envelope(mail[k].offer), EndMark)

\* A message not started has none.
NoEnvelopeYet == \A k \in Message : k > sess.n => be.qq[k].env = <<>>

\* A process queues a complete envelope only.
QueuedIsComplete == \A k \in Message : be.qq[k].queued => Complete(be.qq[k].env)

Inductive ==
  /\ TypeOK
  /\ BufferIsOffer
  /\ OfferHasRecipients
  /\ MessageIsOffer
  /\ BodyHasPipe
  /\ EnvelopesAreOffers
  /\ NoEnvelopeYet
  /\ QueuedIsComplete

-----------------------------------------------------------------------------
(* What the handlers do                                                    *)

\* What the parameters' assumption gives.
LEMMA Parameters ==
  /\ \A answers \in Chains : answers \in Seq(Response)
  /\ Number = Message
  BY SmtpQmailAssumption DEF SmtpParameters, Number, Message

\* Closing the temporary file changes nothing else of the container.
LEMMA CloseFileType ==
  ASSUME NEW s \in Session
  PROVE  /\ CloseFile(s) \in Session
         /\ CloseFile(s).n = s.n /\ CloseFile(s).dresp = s.dresp /\ CloseFile(s).need = s.need
  BY DEF CloseFile, Session

\* A handler that resets on its way out leaves an empty buffer, and queues
\* nothing.
LEMMA ResetAndOutcome ==
  ASSUME NEW s \in Session, NEW b \in QmailState, NEW r
  PROVE  LET o == ResetAnd(s, b, r)
         IN  /\ o.sess \in Session /\ o.sess.n = s.n /\ o.sess.dresp = s.dresp
             /\ o.be \in QmailState /\ o.be.buf = <<>>
             /\ Keeps(b.qq, o.be.qq)
             /\ o.resp = r
  BY CloseFileType, ResetType, ResetKeeps DEF ResetAnd, Outcome

\* handle_reset empties the buffer and queues nothing.
LEMMA ResetHandled ==
  ASSUME NEW s \in Session, NEW b \in QmailState, NEW answers
  PROVE  LET o == handle_reset(s, b, answers)
         IN  /\ o.sess \in Session /\ o.sess.n = s.n
             /\ o.be \in QmailState /\ o.be.buf = <<>>
             /\ Keeps(b.qq, o.be.qq)
  BY CloseFileType, ResetType, ResetKeeps DEF handle_reset, Outcome

\* handle_sender after a reset: accepted, the buffer is the sender; refused, it
\* opens no envelope.
LEMMA SenderHandled ==
  ASSUME NEW s \in Session, NEW b \in QmailState, b.buf = <<>>,
         NEW a \in Address, NEW answers,
         NEW o \in handle_sender(s, b, a, answers)
  PROVE  /\ o.sess = s
         /\ o.be \in QmailState /\ o.be.qq = b.qq
         /\ IF response_ok(o.resp)
            THEN o.be.buf = <<From(a)>>
            ELSE o.be.buf \in {<<>>, <<Torn(a)>>}
<1> DEFINE resp == MODULE_CALL("none", answers)
<1>1. CASE o = Outcome(s, b, "perm")
  BY <1>1 DEF Outcome, response_ok
<1>2. CASE ~ response_ok(resp) /\ o = Outcome(s, b, resp)
  BY <1>2 DEF Outcome
<1>3. ASSUME NEW p \in do_sender(b, a), response_ok(resp),
             o = Outcome(s, p.be, IF response_ok(p.resp) THEN resp ELSE p.resp)
      PROVE  /\ o.sess = s
             /\ o.be \in QmailState /\ o.be.qq = b.qq
             /\ IF response_ok(o.resp)
                THEN o.be.buf = <<From(a)>>
                ELSE o.be.buf \in {<<>>, <<Torn(a)>>}
  <2>1. /\ p.be \in QmailState /\ p.be.qq = b.qq
        /\ \/ p.resp = "none" /\ p.be.buf = Append(b.buf, From(a))
           \/ p.resp = "temp" /\ p.be.buf = Append(b.buf, Torn(a))
    BY SenderOutcome
  <2>2. Append(b.buf, From(a)) = <<From(a)>> /\ Append(b.buf, Torn(a)) = <<Torn(a)>>
    OBVIOUS
  <2>3. o.sess = s /\ o.be = p.be
        /\ o.resp = (IF response_ok(p.resp) THEN resp ELSE p.resp)
    BY <1>3 DEF Outcome
  <2>4. ~ response_ok("temp") /\ response_ok("none")
    BY DEF response_ok
  <2> HIDE DEF resp
  <2> QED BY <1>3, <2>1, <2>2, <2>3, <2>4
<1> QED BY <1>1, <1>2, <1>3 DEF handle_sender

\* handle_recipient: the buffer grows by the recipient exactly when it is
\* accepted.
LEMMA RecipientHandled ==
  ASSUME "oom" \notin QmailFaults,
         NEW s \in Session, NEW b \in QmailState,
         NEW a \in Address, NEW answers,
         NEW o \in handle_recipient(s, b, a, answers)
  PROVE  /\ o.sess = s
         /\ o.be \in QmailState /\ o.be.qq = b.qq
         /\ o.be.buf = IF response_ok(o.resp) THEN Append(b.buf, To(a)) ELSE b.buf
<1> DEFINE resp == MODULE_CALL("none", answers)
<1>1. CASE o = Outcome(s, b, "perm")
  BY <1>1 DEF Outcome, response_ok
<1>2. CASE ~ response_ok(resp) /\ o = Outcome(s, b, resp)
  BY <1>2 DEF Outcome
<1>3. ASSUME NEW p \in do_recipient(b, a), response_ok(resp),
             o = Outcome(s, p.be, IF response_ok(p.resp) THEN resp ELSE p.resp)
      PROVE  /\ o.sess = s
             /\ o.be \in QmailState /\ o.be.qq = b.qq
             /\ o.be.buf = IF response_ok(o.resp) THEN Append(b.buf, To(a)) ELSE b.buf
  <2>1. /\ p.be \in QmailState /\ p.be.qq = b.qq
        /\ p.resp = "none" /\ p.be.buf = Append(b.buf, To(a))
    BY RecipientOutcome
  <2>2. o.sess = s /\ o.be = p.be
        /\ o.resp = (IF response_ok(p.resp) THEN resp ELSE p.resp)
    BY <1>3 DEF Outcome
  <2>3. response_ok("none")
    BY DEF response_ok
  <2> HIDE DEF resp
  <2> QED BY <1>3, <2>1, <2>2, <2>3
<1> QED BY <1>1, <1>2, <1>3 DEF handle_recipient

\* The responses that are errors.
LEMMA Errors ==
  ASSUME NEW r \in Response, ~ response_ok(r)
  PROVE  r \in {"temp", "perm"}
  BY DEF response_ok

\* handle_data_start keeps or empties the buffer; accepted, the envelope pipe
\* is the new message's.
LEMMA DataStartHandled ==
  ASSUME NEW s \in Session, s.n < MaxMessages, NEW b \in QmailState,
         NEW answers \in Seq(Response),
         NEW o \in handle_data_start(s, b, answers)
  PROVE  /\ o.sess \in Session /\ o.sess.n = s.n + 1
         /\ o.be \in QmailState /\ o.be.buf \in {b.buf, <<>>}
         /\ Keeps(b.qq, o.be.qq)
         /\ response_ok(o.resp) =>
              /\ response_ok(o.sess.dresp)
              /\ o.be.epipe = s.n + 1
<1> DEFINE t      == [CloseFile(s) EXCEPT !.n = @ + 1]
           opened == [t EXCEPT !.fd = t.need, !.dresp = "none"]
           then(p) == LET resp == MODULE_CALL(p.resp, answers)
                      IN  IF ~ response_ok(p.resp)
                          THEN ResetAnd([opened EXCEPT !.dresp = p.resp], p.be, p.resp)
                          ELSE IF ~ response_ok(resp) THEN ResetAnd(opened, p.be, resp)
                          ELSE Outcome(opened, p.be, resp)
<1>0. s.n + 1 \in 0 .. MaxMessages /\ s.n + 1 \in Message
  BY DEF Session, Message
<1>1. t \in Session /\ t.n = s.n + 1
  <2> DEFINE c == CloseFile(s)
  <2>1. c \in Session /\ c.n = s.n
    BY CloseFileType
  <2> HIDE DEF c
  <2>2. [c EXCEPT !.n = c.n + 1] \in Session /\ [c EXCEPT !.n = c.n + 1].n = c.n + 1
    BY <1>0, <2>1 DEF Session
  <2> QED BY <2>1, <2>2 DEF c
<1> HIDE DEF t
<1>2. opened \in Session /\ opened.n = s.n + 1 /\ opened.dresp = "none" /\ opened.fd \in BOOLEAN
  BY <1>1 DEF Session
<1> HIDE DEF opened
<1>3. CASE o = Outcome(t, b, "temp")
  BY <1>1, <1>3 DEF Outcome, response_ok, Keeps, KeepsOne
<1>4. ASSUME NEW p \in data_start(b, opened.fd, opened.n), o = then(p)
      PROVE  /\ o.sess \in Session /\ o.sess.n = s.n + 1
             /\ o.be \in QmailState /\ o.be.buf \in {b.buf, <<>>}
             /\ Keeps(b.qq, o.be.qq)
             /\ response_ok(o.resp) =>
                  /\ response_ok(o.sess.dresp)
                  /\ o.be.epipe = s.n + 1
  <2>1. /\ p.be \in QmailState /\ p.resp \in {"none", "temp"}
        /\ p.be.buf = b.buf /\ Keeps(b.qq, p.be.qq)
        /\ p.resp = "none" => p.be.epipe = s.n + 1
    BY <1>0, <1>2, DataStartOutcome
  <2>2. CASE p.resp = "temp"
    <3> DEFINE u == [opened EXCEPT !.dresp = "temp"]
    <3>1. u \in Session /\ u.n = s.n + 1
      BY <1>2 DEF Session
    <3>2. o = ResetAnd(u, p.be, "temp")
      BY <1>4, <2>2 DEF response_ok
    <3> HIDE DEF u
    <3>3. /\ o.sess \in Session /\ o.sess.n = s.n + 1 /\ o.be \in QmailState
          /\ o.be.buf = <<>> /\ Keeps(p.be.qq, o.be.qq) /\ o.resp = "temp"
      BY <2>1, <3>1, <3>2, ResetAndOutcome
    <3> QED BY <2>1, <3>3, KeepsTransitive DEF response_ok
  <2>3. CASE p.resp = "none"
    <3> DEFINE resp == MODULE_CALL(p.resp, answers)
    <3>1. CASE ~ response_ok(resp)
      <4>1. o = ResetAnd(opened, p.be, resp)
        BY <1>4, <2>3, <3>1 DEF response_ok
      <4> HIDE DEF resp
      <4>2. /\ o.sess \in Session /\ o.sess.n = s.n + 1 /\ o.be \in QmailState
            /\ o.be.buf = <<>> /\ Keeps(p.be.qq, o.be.qq) /\ o.resp = resp
        BY <1>2, <2>1, <4>1, ResetAndOutcome
      <4> QED BY <2>1, <3>1, <4>2, KeepsTransitive
    <3>2. CASE response_ok(resp)
      <4>1. o = Outcome(opened, p.be, resp)
        BY <1>4, <2>3, <3>2 DEF response_ok
      <4>2. o.sess = opened /\ o.be = p.be
        BY <4>1 DEF Outcome
      <4>3. response_ok("none")
        BY DEF response_ok
      <4> QED BY <1>2, <2>1, <2>3, <4>2, <4>3
    <3> QED BY <3>1, <3>2
  <2> QED BY <2>1, <2>2, <2>3
<1>5. o = Outcome(t, b, "temp")
      \/ \E p \in data_start(b, opened.fd, opened.n) : o = then(p)
  BY DEF handle_data_start, t, opened
<1> QED BY <1>3, <1>4, <1>5

\* handle_data_bytes empties the buffer when it first records an error, and
\* else keeps it.
LEMMA DataBytesHandled ==
  ASSUME NEW s \in Session, NEW b \in QmailState, NEW answers \in Seq(Response),
         NEW o \in handle_data_bytes(s, b, answers)
  PROVE  /\ o.sess \in Session /\ o.sess.n = s.n
         /\ o.be \in QmailState
         /\ Keeps(b.qq, o.be.qq)
         /\ IF response_ok(o.sess.dresp)
            THEN /\ response_ok(s.dresp)
                 /\ o.be.buf = b.buf /\ o.be.epipe = b.epipe
            ELSE o.be.buf = IF response_ok(s.dresp) THEN <<>> ELSE b.buf
<1> DEFINE resp == FirstError(answers)
           Kept == /\ o.sess \in Session /\ o.sess.n = s.n
                   /\ o.be \in QmailState
                   /\ Keeps(b.qq, o.be.qq)
                   /\ IF response_ok(o.sess.dresp)
                      THEN /\ response_ok(s.dresp)
                           /\ o.be.buf = b.buf /\ o.be.epipe = b.epipe
                      ELSE o.be.buf = IF response_ok(s.dresp) THEN <<>> ELSE b.buf
<1>1. CASE ~ response_ok(s.dresp) /\ o = Outcome(s, b, "none")
  BY <1>1 DEF Outcome, Keeps, KeepsOne
<1>2. ASSUME response_ok(s.dresp), NEW r \in {"temp", "perm"}, NEW c \in QmailState,
             Keeps(b.qq, c.qq),
             o = ResetAnd([s EXCEPT !.dresp = r], c, "none")
      PROVE  Kept
  <2> DEFINE u == [s EXCEPT !.dresp = r]
  <2>1. u \in Session /\ u.n = s.n /\ u.dresp = r
    BY DEF Session
  <2>2. o = ResetAnd(u, c, "none")
    BY <1>2
  <2> HIDE DEF u
  <2>3. /\ o.sess \in Session /\ o.sess.n = s.n /\ o.sess.dresp = r
        /\ o.be \in QmailState /\ o.be.buf = <<>> /\ Keeps(c.qq, o.be.qq)
    BY <2>1, <2>2, ResetAndOutcome
  <2>4. ~ response_ok(r)
    BY DEF response_ok
  <2>5. Keeps(b.qq, o.be.qq)
    BY <1>2, <2>3, KeepsTransitive
  <2> QED BY <1>2, <2>3, <2>4, <2>5
<1>3. CASE response_ok(s.dresp) /\ ~ response_ok(resp)
           /\ o = ResetAnd([s EXCEPT !.dresp = resp], b, "none")
  <2>1. resp \in {"temp", "perm"}
    BY <1>3, FirstErrorType, Errors
  <2>2. Keeps(b.qq, b.qq)
    BY DEF Keeps, KeepsOne
  <2> HIDE DEF resp
  <2> QED BY <1>2, <1>3, <2>1, <2>2
<1>4. ASSUME response_ok(s.dresp), NEW p \in data_block(b),
             \/ o = Outcome(s, p.be, "none")
             \/ o = Outcome([s EXCEPT !.file = @ + 1], p.be, "none")
             \/ o = ResetAnd([s EXCEPT !.dresp = "temp"], p.be, "none")
      PROVE  Kept
  <2>1. /\ p.be \in QmailState /\ p.be.buf = b.buf /\ p.be.epipe = b.epipe
        /\ Keeps(b.qq, p.be.qq)
    BY DataBlockOutcome
  <2>2. CASE o = Outcome(s, p.be, "none")
    BY <1>4, <2>1, <2>2 DEF Outcome
  <2>3. CASE o = Outcome([s EXCEPT !.file = @ + 1], p.be, "none")
    <3> DEFINE u == [s EXCEPT !.file = @ + 1]
    <3>1. u \in Session /\ u.n = s.n /\ u.dresp = s.dresp
      BY DEF Session
    <3>2. o = Outcome(u, p.be, "none")
      BY <2>3
    <3> HIDE DEF u
    <3> QED BY <1>4, <2>1, <3>1, <3>2 DEF Outcome
  <2>4. CASE o = ResetAnd([s EXCEPT !.dresp = "temp"], p.be, "none")
    BY <1>2, <1>4, <2>1, <2>4
  <2> QED BY <1>4, <2>2, <2>3, <2>4
<1> HIDE DEF Kept
<1>5. \/ ~ response_ok(s.dresp) /\ o = Outcome(s, b, "none")
      \/ response_ok(s.dresp) /\ ~ response_ok(resp)
         /\ o = ResetAnd([s EXCEPT !.dresp = resp], b, "none")
      \/ response_ok(s.dresp) /\ \E p \in data_block(b) :
           \/ o = Outcome(s, p.be, "none")
           \/ o = Outcome([s EXCEPT !.file = @ + 1], p.be, "none")
           \/ o = ResetAnd([s EXCEPT !.dresp = "temp"], p.be, "none")
  BY DEF handle_data_bytes
<1>6. Kept
  BY <1>1, <1>3, <1>4, <1>5 DEF Kept
<1> QED BY <1>6 DEF Kept

\* The end of a message, which answers it (leaving no envelope that opens) or goes on.
LEMMA Ended ==
  ASSUME NEW s \in Session, NEW b \in QmailState,
         NEW resp \in {"busy", "ok", "temp", "perm"}, resp = "ok" => b.buf = <<Text>>
  PROVE  LET o == MessageEnded(s, b, resp)
         IN  /\ o.sess \in Session /\ o.sess.n = s.n
             /\ o.be \in QmailState /\ Keeps(b.qq, o.be.qq)
             /\ o.resp = resp
             /\ IF resp = "busy" THEN o.be = b ELSE o.be.buf \in {<<>>, <<Text>>}
<1>0. Keeps(b.qq, b.qq)
  BY DEF Keeps, KeepsOne
<1>1. CASE resp = "busy"
  BY <1>0, <1>1 DEF MessageEnded, Outcome
<1>2. CASE resp = "ok"
  BY <1>0, <1>2, CloseFileType DEF MessageEnded, Outcome, response_ok
<1>3. CASE resp \in {"temp", "perm"}
  <2>1. MessageEnded(s, b, resp) = ResetAnd(s, b, resp)
    BY <1>3 DEF MessageEnded, response_ok
  <2> QED BY <1>3, <2>1, ResetAndOutcome
<1> QED BY <1>1, <1>2, <1>3

\* handle_message_end answers at once, with the buffer empty, or gives the
\* buffer to the message's own process.
LEMMA MessageEndHandled ==
  ASSUME NEW s \in Session, NEW b \in QmailState, NEW answers,
         response_ok(s.dresp) => b.epipe \in Message,
         NEW o \in handle_message_end(s, b, answers)
  PROVE  /\ o.sess \in Session /\ o.sess.n = s.n
         /\ o.be \in QmailState
         /\ IF o.resp = "busy"
            THEN /\ response_ok(s.dresp)
                 /\ o.be.buf = b.buf
                 /\ \A k \in Message :
                      IF k = b.epipe
                      THEN /\ o.be.qq[k].env = Append(b.buf, EndMark)
                           /\ o.be.qq[k].queued = b.qq[k].queued
                      ELSE KeepsOne(b.qq[k], o.be.qq[k])
            ELSE /\ Keeps(b.qq, o.be.qq)
                 /\ o.be.buf = IF response_ok(s.dresp) THEN <<>> ELSE b.buf
<1> DEFINE resp == MODULE_CALL("none", answers)
<1>0. Keeps(b.qq, b.qq)
  BY DEF Keeps, KeepsOne
<1>1. CASE ~ response_ok(s.dresp) /\ o = Outcome(s, b, s.dresp)
  BY <1>0, <1>1 DEF Outcome, Session
<1>2. CASE response_ok(s.dresp) /\ ~ response_ok(resp) /\ o = ResetAnd(s, b, resp)
  <2>1. resp # "busy"
    BY <1>2 DEF response_ok
  <2> HIDE DEF resp
  <2> QED BY <1>2, <2>1, ResetAndOutcome
<1>3. ASSUME response_ok(s.dresp), NEW p \in message_end(b, s.fd, s.file),
             o = MessageEnded(s, p.be, p.resp)
      PROVE  /\ o.sess \in Session /\ o.sess.n = s.n
             /\ o.be \in QmailState
             /\ IF o.resp = "busy"
                THEN /\ o.be.buf = b.buf
                     /\ \A k \in Message :
                          IF k = b.epipe
                          THEN /\ o.be.qq[k].env = Append(b.buf, EndMark)
                               /\ o.be.qq[k].queued = b.qq[k].queued
                          ELSE KeepsOne(b.qq[k], o.be.qq[k])
                ELSE Keeps(b.qq, o.be.qq) /\ o.be.buf = <<>>
  <2>1. s.fd \in BOOLEAN /\ s.file \in Nat
    BY DEF Session
  <2>2. /\ p.be \in QmailState
        /\ p.resp \in {"busy", "temp"}
        /\ p.be.buf = b.buf
        /\ p.resp = "temp" => Keeps(b.qq, p.be.qq)
        /\ p.resp = "busy" =>
             \A k \in Message :
               IF k = b.epipe
               THEN /\ p.be.qq[k].env = Append(b.buf, EndMark)
                    /\ p.be.qq[k].queued = b.qq[k].queued
               ELSE KeepsOne(b.qq[k], p.be.qq[k])
    BY <1>3, <2>1, MessageEndOutcome
  <2>3. CASE p.resp = "busy"
    BY <1>3, <2>2, <2>3 DEF MessageEnded, Outcome
  <2>4. CASE p.resp = "temp"
    <3>1. o = ResetAnd(s, p.be, "temp")
      BY <1>3, <2>4 DEF MessageEnded, response_ok
    <3> QED BY <2>2, <2>4, <3>1, ResetAndOutcome, KeepsTransitive
  <2> QED BY <2>2, <2>3, <2>4
<1>4. \/ ~ response_ok(s.dresp) /\ o = Outcome(s, b, s.dresp)
      \/ response_ok(s.dresp) /\ ~ response_ok(resp) /\ o = ResetAnd(s, b, resp)
      \/ response_ok(s.dresp) /\ \E p \in message_end(b, s.fd, s.file) :
                                  o = MessageEnded(s, p.be, p.resp)
  BY DEF handle_message_end
<1> HIDE DEF resp
<1> QED BY <1>1, <1>2, <1>3, <1>4

\* Once it answers, no envelope is left in the buffer.
LEMMA EndGoesOnHandled ==
  ASSUME NEW s \in Session, NEW b \in QmailState,
         NEW o \in handle_message_end_goes_on(s, b)
  PROVE  /\ o.sess \in Session /\ o.sess.n = s.n
         /\ o.be \in QmailState /\ Keeps(b.qq, o.be.qq)
         /\ IF o.resp = "busy" THEN o.be.buf = b.buf
            ELSE o.be.buf \in {<<>>, <<Text>>}
<1>1. PICK p \in message_end_goes_on(b) : o = MessageEnded(s, p.be, p.resp)
  BY DEF handle_message_end_goes_on
<1>2. /\ p.be \in QmailState
      /\ p.resp \in {"busy", "ok", "temp", "perm"}
      /\ Keeps(b.qq, p.be.qq)
      /\ p.resp = "busy" => p.be.buf = b.buf
      /\ p.resp = "ok" => p.be.buf = <<Text>>
  BY GoesOnOutcome
<1> QED BY <1>1, <1>2, Ended, KeepsTransitive

-----------------------------------------------------------------------------
(* Envelopes                                                               *)

\* The offers that the commands make are offers.
LEMMA OfferTypes ==
  /\ NoOffer \in Offer
  /\ \A a \in Address : [from |-> <<a>>, to |-> <<>>] \in Offer
  /\ \A o \in Offer, a \in Address : [o EXCEPT !.to = Append(@, a)] \in Offer
<1>1. <<>> \in Seq(Address)
  OBVIOUS
<1>2. \A a \in Address : <<a>> \in {<<>>} \cup {<<x>> : x \in Address}
  OBVIOUS
<1>3. \A t \in Seq(Address), a \in Address : Append(t, a) \in Seq(Address)
  OBVIOUS
<1>4. NoOffer \in Offer
  BY <1>1 DEF NoOffer, Offer
<1>5. \A a \in Address : [from |-> <<a>>, to |-> <<>>] \in Offer
  BY <1>1, <1>2 DEF Offer
<1>6. ASSUME NEW o \in Offer, NEW a \in Address
      PROVE  [o EXCEPT !.to = Append(o.to, a)] \in Offer
  <2>1. Append(o.to, a) \in Seq(Address)
    BY <1>3 DEF Offer
  <2> QED BY <2>1 DEF Offer
<1> QED BY <1>4, <1>5, <1>6

\* Neither an empty buffer nor an answer's text starts with a sender.
LEMMA NothingOpens == ~ Opens(<<>>) /\ ~ Opens(<<Text>>)
  BY DEF Opens, Text

\* Nor does a torn entry.
LEMMA TornOpensNothing ==
  ASSUME NEW a \in Address
  PROVE  ~ Opens(<<Torn(a)>>)
  BY DEF Opens, Torn

\* Whether a buffer starts with a sender is settled by its first entry.
LEMMA OpensIsFirst ==
  ASSUME NEW buf \in Seq(Entry), NEW e \in Entry, e[1] # "F",
         Opens(Append(buf, e))
  PROVE  Opens(buf)
<1>1. CASE buf = <<>>
  BY <1>1 DEF Opens
<1>2. CASE buf # <<>>
  <2>1. Head(Append(buf, e)) = Head(buf)
    BY <1>2
  <2> QED BY <1>2, <2>1 DEF Opens
<1> QED BY <1>1, <1>2

\* The envelope after MAIL ...
LEMMA EnvelopeStarts ==
  ASSUME NEW a \in Address
  PROVE  Envelope([from |-> <<a>>, to |-> <<>>]) = <<From(a)>>
  BY DEF Envelope

\* ... and after one more RCPT.
LEMMA EnvelopeExtends ==
  ASSUME NEW o \in Offer, NEW a \in Address
  PROVE  Envelope([o EXCEPT !.to = Append(@, a)]) = Append(Envelope(o), To(a))
<1> DEFINE p == [o EXCEPT !.to = Append(@, a)]
           n == Len(o.to)
<1>1. p.from = o.from /\ p.to = Append(o.to, a) /\ o.to \in Seq(Address)
  BY DEF Offer
<1>2. n \in Nat /\ Len(p.to) = n + 1 /\ p.to[n + 1] = a
      /\ \A i \in 1 .. n : p.to[i] = o.to[i]
  BY <1>1
<1> HIDE DEF p, n
<1>3. Envelope(p) = [i \in 1 .. n + 2 |-> IF i = 1 THEN From(o.from[1]) ELSE To(p.to[i - 1])]
  BY <1>1, <1>2 DEF Envelope
<1>4. Envelope(o) = [i \in 1 .. n + 1 |-> IF i = 1 THEN From(o.from[1]) ELSE To(o.to[i - 1])]
  BY DEF Envelope, n
<1>5. Len(Envelope(o)) = n + 1
  BY <1>2, <1>4
<1>6. Append(Envelope(o), To(a)) =
        [i \in 1 .. n + 2 |-> IF i = n + 2 THEN To(a) ELSE Envelope(o)[i]]
  BY <1>2, <1>4, <1>5
<1>7. ASSUME NEW i \in 1 .. n + 2
      PROVE  (IF i = 1 THEN From(o.from[1]) ELSE To(p.to[i - 1]))
             = (IF i = n + 2 THEN To(a) ELSE Envelope(o)[i])
  <2>1. CASE i = n + 2
    BY <1>2, <2>1
  <2>2. CASE i # n + 2 /\ i # 1
    <3>1. i - 1 \in 1 .. n /\ i \in 1 .. n + 1
      BY <1>2, <2>2
    <3> QED BY <1>2, <1>4, <2>2, <3>1
  <2>3. CASE i = 1
    BY <1>2, <1>4, <2>3
  <2> QED BY <2>1, <2>2, <2>3
<1>8. Envelope(p) = Append(Envelope(o), To(a))
  BY <1>3, <1>6, <1>7
<1> QED BY <1>8 DEF p

-----------------------------------------------------------------------------
(* Every step preserves the invariant                                      *)

Processes == EnvelopesAreOffers /\ NoEnvelopeYet /\ QueuedIsComplete

\* What is known of the processes survives a step that keeps them and what the
\* client was told of started messages.
LEMMA ProcessesCarried ==
  ASSUME Inductive, be'.qq \in [Message -> QmailQueue], Keeps(be.qq, be'.qq),
         sess' \in Session, sess.n <= sess'.n,
         \A k \in Message : k <= sess.n => mail'[k].offer = mail[k].offer
  PROVE  Processes'
<1>1. ASSUME NEW k \in Message
      PROVE  /\ be'.qq[k].queued = be.qq[k].queued
             /\ \/ be'.qq[k].env = be.qq[k].env
                \/ be'.qq[k].env = <<>> /\ ~ be'.qq[k].queued
             /\ be.qq[k].env # <<>> => mail'[k].offer = mail[k].offer
             /\ k > sess'.n => be.qq[k].env = <<>>
  <2>1. sess.n \in Nat /\ sess'.n \in Nat /\ k \in Nat
    BY DEF Inductive, TypeOK, Session, Message
  <2>2. k > sess.n => be.qq[k].env = <<>>
    BY DEF Inductive, NoEnvelopeYet
  <2> QED BY <2>1, <2>2 DEF Keeps, KeepsOne
<1>2. EnvelopesAreOffers'
  BY <1>1, NothingOpens DEF Inductive, EnvelopesAreOffers, Opens
<1>3. NoEnvelopeYet'
  BY <1>1 DEF Inductive, NoEnvelopeYet
<1>4. QueuedIsComplete'
  BY <1>1 DEF Inductive, QueuedIsComplete
<1> QED BY <1>2, <1>3, <1>4 DEF Processes

\* Nothing of a message's process is disturbed, and no more is said of any message.
LEMMA Undisturbed ==
  ASSUME Inductive, NEW o, Becomes(o),
         o.sess \in Session, o.sess.n = sess.n,
         o.be \in QmailState, Keeps(be.qq, o.be.qq),
         \A k \in Message : mail'[k].offer = mail[k].offer
  PROVE  sess' \in Session /\ sess'.n = sess.n /\ be' \in QmailState /\ Processes'
<1>1. sess' = o.sess /\ be' = o.be
  BY DEF Becomes
<1>2. be'.qq \in [Message -> QmailQueue]
  BY <1>1 DEF QmailState
<1>3. sess.n <= sess'.n
  BY <1>1 DEF Session
<1> QED BY <1>1, <1>2, <1>3, ProcessesCarried

\* exit(), wherever it is called, preserves the invariant.
LEMMA Exiting ==
  ASSUME Inductive, NEW o, o.sess \in Session, o.sess.n = sess.n,
         o.be \in QmailState, Keeps(be.qq, o.be.qq), Exits(o),
         mail' \in [Number -> Mail], \A k \in Message : mail'[k].offer = mail[k].offer,
         UNCHANGED <<saw_mail, saw_rcpt, rcpts, offer>>
  PROVE  Inductive'
<1> DEFINE e == exitfn(o.sess, o.be)
<1>1. /\ e.sess \in Session /\ e.sess.n = sess.n
      /\ e.be \in QmailState /\ e.be.buf = <<>> /\ Keeps(be.qq, e.be.qq)
  BY ResetAndOutcome, KeepsTransitive DEF exitfn
<1>2. Becomes(e) /\ pc' = "closed"
  BY DEF Exits
<1> HIDE DEF e
<1>3. sess' \in Session /\ sess'.n = sess.n /\ be' \in QmailState /\ Processes'
  BY <1>1, <1>2, Undisturbed
<1>4. be'.buf = <<>>
  BY <1>1, <1>2 DEF Becomes
<1>5. TypeOK'
  BY <1>2, <1>3 DEF Inductive, TypeOK
<1>6. ~ Opens(be'.buf)
  BY <1>4, NothingOpens
<1> QED BY <1>2, <1>3, <1>5, <1>6
     DEF Inductive, Processes, BufferIsOffer, OfferHasRecipients, MessageIsOffer,
         BodyHasPipe, Active

\* HELO and EHLO preserve the invariant, though they leave saw_mail and
\* saw_rcpt set.
LEMMA HELOPreserves ==
  ASSUME Inductive, HELO
  PROVE  Inductive'
<1>1. PICK answers \in Chains : Becomes(handle_reset(sess, be, answers))
  BY DEF HELO
<1> DEFINE o == handle_reset(sess, be, answers)
<1>2. /\ o.sess \in Session /\ o.sess.n = sess.n
      /\ o.be \in QmailState /\ o.be.buf = <<>> /\ Keeps(be.qq, o.be.qq)
  BY ResetHandled DEF Inductive, TypeOK
<1>3. Becomes(o)
  BY <1>1
<1> HIDE DEF o
<1>4. /\ pc = "command" /\ offer' = NoOffer
      /\ UNCHANGED <<pc, saw_mail, saw_rcpt, rcpts, mail>>
  BY DEF HELO
<1>5. sess' \in Session /\ sess'.n = sess.n /\ be' \in QmailState /\ Processes'
  BY <1>2, <1>3, <1>4, Undisturbed
<1>6. ~ Opens(be'.buf)
  BY <1>2, <1>3, NothingOpens DEF Becomes
<1>7. TypeOK'
  BY <1>4, <1>5, OfferTypes DEF Inductive, TypeOK
<1> QED BY <1>4, <1>5, <1>6, <1>7
     DEF Inductive, Processes, BufferIsOffer, OfferHasRecipients, MessageIsOffer,
         BodyHasPipe, Active

\* RSET preserves the invariant.
LEMMA RSETPreserves ==
  ASSUME Inductive, RSET
  PROVE  Inductive'
<1>1. PICK answers \in Chains : Becomes(handle_reset(sess, be, answers))
  BY DEF RSET
<1> DEFINE o == handle_reset(sess, be, answers)
<1>2. /\ o.sess \in Session /\ o.sess.n = sess.n
      /\ o.be \in QmailState /\ o.be.buf = <<>> /\ Keeps(be.qq, o.be.qq)
  BY ResetHandled DEF Inductive, TypeOK
<1>3. Becomes(o)
  BY <1>1
<1> HIDE DEF o
<1>4. /\ pc = "command" /\ offer' = NoOffer /\ rcpts' = 0
      /\ saw_mail' = FALSE /\ saw_rcpt' = FALSE
      /\ UNCHANGED <<pc, mail>>
  BY DEF RSET
<1>5. sess' \in Session /\ sess'.n = sess.n /\ be' \in QmailState /\ Processes'
  BY <1>2, <1>3, <1>4, Undisturbed
<1>6. ~ Opens(be'.buf)
  BY <1>2, <1>3, NothingOpens DEF Becomes
<1>7. TypeOK'
  BY <1>4, <1>5, OfferTypes DEF Inductive, TypeOK
<1> QED BY <1>4, <1>5, <1>6, <1>7
     DEF Inductive, Processes, BufferIsOffer, OfferHasRecipients, MessageIsOffer,
         BodyHasPipe, Active

\* A failed reset preserves the invariant.
LEMMA ResetFailsPreserves ==
  ASSUME Inductive, ResetFails
  PROVE  Inductive'
<1>1. PICK answers \in Chains : Exits(handle_reset(sess, be, answers))
  BY DEF ResetFails
<1> DEFINE o == handle_reset(sess, be, answers)
<1>2. /\ o.sess \in Session /\ o.sess.n = sess.n
      /\ o.be \in QmailState /\ Keeps(be.qq, o.be.qq)
  BY ResetHandled DEF Inductive, TypeOK
<1>3. Exits(o)
  BY <1>1
<1> HIDE DEF o
<1>4. mail' = mail /\ mail \in [Number -> Mail] /\ UNCHANGED <<saw_mail, saw_rcpt, rcpts, offer>>
  BY DEF ResetFails, Inductive, TypeOK
<1> QED BY <1>2, <1>3, <1>4, Exiting

\* What is recorded of a message cut short leaves its offer.
LEMMA MailCutType ==
  ASSUME Inductive
  PROVE  MailCut \in [Number -> Mail] /\ \A k \in Message : MailCut[k].offer = mail[k].offer
<1>1. mail \in [Number -> Mail] /\ Number = Message
  BY Parameters DEF Inductive, TypeOK
<1>2. ASSUME NEW k \in Message, NEW v \in Verdict
      PROVE  [mail[k] EXCEPT !.verdict = v] \in Mail
             /\ [mail[k] EXCEPT !.verdict = v].offer = mail[k].offer
  BY <1>1 DEF Mail
<1> DEFINE v == IF pc = "ending" THEN "unknown" ELSE "cut"
<1>3. v \in Verdict
  BY DEF Verdict
<1>4. MailCut \in {mail, [mail EXCEPT ![sess.n] = [mail[sess.n] EXCEPT !.verdict = v]]}
  BY <1>1 DEF MailCut
<1> HIDE DEF v
<1> DEFINE cut == [mail[sess.n] EXCEPT !.verdict = v]
<1>5. sess.n \in Message => cut \in Mail /\ cut.offer = mail[sess.n].offer
  BY <1>2, <1>3
<1> HIDE DEF cut
<1>6. CASE MailCut = mail
  BY <1>1, <1>6
<1>7. CASE MailCut = [mail EXCEPT ![sess.n] = cut]
  BY <1>1, <1>5, <1>7
<1> QED BY <1>4, <1>6, <1>7 DEF cut

\* Leaving, or being timed out, preserves the invariant.
LEMMA LeavePreserves ==
  ASSUME Inductive, Leave \/ Alarm
  PROVE  Inductive'
<1> DEFINE o == Outcome(sess, be, "none")
<1>1. o.sess = sess /\ o.be = be /\ Exits(o)
  BY DEF Leave, Alarm, Outcome
<1> HIDE DEF o
<1>2. mail' = MailCut /\ UNCHANGED <<saw_mail, saw_rcpt, rcpts, offer>>
  BY DEF Leave, Alarm
<1>3. be \in QmailState /\ sess \in Session /\ Keeps(be.qq, be.qq)
  BY DEF Inductive, TypeOK, Keeps, KeepsOne
<1>4. mail' \in [Number -> Mail] /\ \A k \in Message : mail'[k].offer = mail[k].offer
  BY <1>2, MailCutType
<1> QED BY <1>1, <1>2, <1>3, <1>4, Exiting

\* MAIL preserves the invariant: the buffer is the new sender, or opens
\* nothing.
LEMMA MAILPreserves ==
  ASSUME Inductive, NEW a \in Address, MAIL(a)
  PROVE  Inductive'
<1> DEFINE r(resets) == handle_reset(sess, be, resets)
<1>1. PICK resets \in Chains, answers \in Chains :
        \E o \in handle_sender(r(resets).sess, r(resets).be, a, answers) :
          /\ Becomes(o)
          /\ saw_mail' = response_ok(o.resp)
          /\ offer' = IF response_ok(o.resp)
                      THEN [from |-> <<a>>, to |-> <<>>] ELSE NoOffer
  BY DEF MAIL
<1> DEFINE s == r(resets).sess
           b == r(resets).be
<1>2. /\ s \in Session /\ s.n = sess.n
      /\ b \in QmailState /\ b.buf = <<>> /\ Keeps(be.qq, b.qq)
  BY ResetHandled DEF Inductive, TypeOK
<1>3. PICK o \in handle_sender(s, b, a, answers) :
          /\ Becomes(o)
          /\ saw_mail' = response_ok(o.resp)
          /\ offer' = IF response_ok(o.resp)
                      THEN [from |-> <<a>>, to |-> <<>>] ELSE NoOffer
  BY <1>1
<1> HIDE DEF s, b
<1>4. /\ o.sess = s /\ o.be \in QmailState /\ o.be.qq = b.qq
      /\ IF response_ok(o.resp)
         THEN o.be.buf = <<From(a)>>
         ELSE o.be.buf \in {<<>>, <<Torn(a)>>}
  BY <1>2, SenderHandled
<1>5. pc = "command" /\ saw_rcpt' = FALSE /\ rcpts' = 0 /\ UNCHANGED <<pc, mail>>
  BY DEF MAIL
<1>6. sess' \in Session /\ sess'.n = sess.n /\ be' \in QmailState /\ Processes'
  BY <1>2, <1>3, <1>4, <1>5, Undisturbed
<1>7. TypeOK'
  <2>1. saw_mail' \in BOOLEAN
    BY <1>3 DEF response_ok
  <2>2. offer' \in Offer
    BY <1>3, OfferTypes
  <2> QED BY <1>5, <1>6, <2>1, <2>2 DEF Inductive, TypeOK
<1>8. BufferIsOffer'
  <2>1. CASE response_ok(o.resp)
    BY <1>3, <1>4, <2>1, EnvelopeStarts DEF BufferIsOffer, Becomes
  <2>2. CASE ~ response_ok(o.resp)
    BY <1>3, <1>4, <2>2, NothingOpens, TornOpensNothing DEF BufferIsOffer, Becomes
  <2> QED BY <2>1, <2>2
<1> QED BY <1>5, <1>6, <1>7, <1>8
     DEF Inductive, Processes, OfferHasRecipients, MessageIsOffer, BodyHasPipe, Active

\* RCPT preserves the invariant: buffer and offer grow together.
LEMMA RCPTPreserves ==
  ASSUME "oom" \notin QmailFaults, Inductive, NEW a \in Address, RCPT(a)
  PROVE  Inductive'
<1>0. PICK answers \in Chains : \E o \in handle_recipient(sess, be, a, answers) :
        /\ Becomes(o)
        /\ saw_rcpt' = (saw_rcpt \/ response_ok(o.resp))
        /\ offer' = IF response_ok(o.resp) /\ offer # NoOffer
                    THEN [offer EXCEPT !.to = Append(@, a)] ELSE offer
  BY DEF RCPT
<1>1. PICK o \in handle_recipient(sess, be, a, answers) :
        /\ Becomes(o)
        /\ saw_rcpt' = (saw_rcpt \/ response_ok(o.resp))
        /\ offer' = IF response_ok(o.resp) /\ offer # NoOffer
                    THEN [offer EXCEPT !.to = Append(@, a)] ELSE offer
  BY <1>0
<1>2. /\ o.sess = sess /\ o.be \in QmailState /\ o.be.qq = be.qq
      /\ o.be.buf = IF response_ok(o.resp) THEN Append(be.buf, To(a)) ELSE be.buf
  BY RecipientHandled DEF Inductive, TypeOK
<1>3. pc = "command" /\ rcpts' = rcpts + 1 /\ UNCHANGED <<pc, saw_mail, mail>>
  BY DEF RCPT
<1>4. sess \in Session /\ Keeps(be.qq, o.be.qq)
  BY <1>2 DEF Inductive, TypeOK, Keeps, KeepsOne
<1>5. sess' \in Session /\ sess'.n = sess.n /\ be' \in QmailState /\ Processes'
  BY <1>1, <1>2, <1>3, <1>4, Undisturbed
<1>6. offer \in Offer /\ offer' \in Offer
  BY <1>1, OfferTypes DEF Inductive, TypeOK
<1>7. TypeOK'
  BY <1>1, <1>3, <1>5, <1>6 DEF Inductive, TypeOK
<1>8. BufferIsOffer' /\ OfferHasRecipients'
  <2>1. CASE ~ response_ok(o.resp)
    <3>1. be'.buf = be.buf /\ offer' = offer /\ saw_rcpt' = saw_rcpt
      BY <1>1, <1>2, <2>1 DEF Becomes, Inductive, TypeOK
    <3> QED BY <1>3, <3>1 DEF Inductive, BufferIsOffer, OfferHasRecipients
  <2>2. CASE response_ok(o.resp)
    <3> SUFFICES ASSUME Opens(be'.buf)
                 PROVE  /\ offer'.from # <<>> /\ be'.buf = Envelope(offer')
                        /\ offer'.to # <<>>
      BY DEF BufferIsOffer, OfferHasRecipients
    <3>1. be'.buf = Append(be.buf, To(a))
      BY <1>1, <1>2, <2>2 DEF Becomes
    <3>2. To(a) \in Entry /\ To(a)[1] # "F" /\ be.buf \in Seq(Entry)
      BY EntryTypes DEF To, Inductive, TypeOK, QmailState
    <3>3. Opens(be.buf)
      BY <3>1, <3>2, OpensIsFirst
    <3>4. offer.from # <<>> /\ be.buf = Envelope(offer)
      BY <3>3 DEF Inductive, BufferIsOffer
    <3>5. offer' = [offer EXCEPT !.to = Append(@, a)]
      BY <1>1, <2>2, <3>4 DEF NoOffer
    <3>6. offer'.from = offer.from /\ offer'.to # <<>>
      BY <1>6, <3>5, SMTT(30) DEF Offer
    <3> QED BY <1>6, <3>1, <3>4, <3>5, <3>6, EnvelopeExtends
  <2> QED BY <2>1, <2>2
<1> QED BY <1>3, <1>5, <1>7, <1>8
     DEF Inductive, Processes, MessageIsOffer, BodyHasPipe, Active

\* DATA preserves the invariant: the message starts with the standing offer.
LEMMA DATAPreserves ==
  ASSUME Inductive, DATA
  PROVE  Inductive'
<1>0. PICK answers \in Chains : \E o \in handle_data_start(sess, be, answers) :
        /\ Becomes(o)
        /\ pc' = IF response_ok(o.resp) THEN "body" ELSE "command"
        /\ mail' = [mail EXCEPT ![o.sess.n] =
             [offer |-> offer, blocks |-> 0,
              verdict |-> IF response_ok(o.resp) THEN "open" ELSE "nak"]]
        /\ rcpts' = 0
  BY DEF DATA
<1>1. PICK o \in handle_data_start(sess, be, answers) :
        /\ Becomes(o)
        /\ pc' = IF response_ok(o.resp) THEN "body" ELSE "command"
        /\ mail' = [mail EXCEPT ![o.sess.n] =
             [offer |-> offer, blocks |-> 0,
              verdict |-> IF response_ok(o.resp) THEN "open" ELSE "nak"]]
        /\ rcpts' = 0
  BY <1>0
<1> DEFINE n == sess.n + 1
           m == [offer |-> offer, blocks |-> 0,
                 verdict |-> IF response_ok(o.resp) THEN "open" ELSE "nak"]
<1>2. pc = "command" /\ saw_rcpt /\ sess.n < MaxMessages
      /\ UNCHANGED <<saw_mail, saw_rcpt, offer>>
  BY DEF DATA
<1>3. /\ o.sess \in Session /\ o.sess.n = n
      /\ o.be \in QmailState /\ o.be.buf \in {be.buf, <<>>}
      /\ Keeps(be.qq, o.be.qq)
      /\ response_ok(o.resp) => response_ok(o.sess.dresp) /\ o.be.epipe = n
  BY <1>2, Parameters, DataStartHandled DEF Inductive, TypeOK
<1>4. m \in Mail /\ m.offer = offer
  BY DEF Inductive, TypeOK, Mail, Verdict
<1>5. sess.n \in 0 .. MaxMessages /\ n \in Message /\ Number = Message /\ mail \in [Number -> Mail]
  <2>1. sess.n \in 0 .. MaxMessages
    BY DEF Inductive, TypeOK, Session
  <2> QED BY <1>2, <2>1, Parameters DEF Inductive, TypeOK, Message
<1>6. mail' = [mail EXCEPT ![n] = m] /\ sess' = o.sess /\ be' = o.be
  BY <1>1, <1>3 DEF Becomes
<1> HIDE DEF m
<1>7. /\ mail' \in [Number -> Mail] /\ mail'[n].offer = offer
      /\ \A k \in Message : k <= sess.n => mail'[k].offer = mail[k].offer
  BY <1>4, <1>5, <1>6
<1>8. Processes'
  BY <1>3, <1>5, <1>6, <1>7, ProcessesCarried DEF QmailState
<1>9. TypeOK'
  BY <1>1, <1>2, <1>3, <1>6, <1>7 DEF Inductive, TypeOK
<1>10. BufferIsOffer' /\ OfferHasRecipients'
  BY <1>2, <1>3, <1>6, NothingOpens DEF Inductive, BufferIsOffer, OfferHasRecipients
<1>11. MessageIsOffer'
  BY <1>2, <1>3, <1>5, <1>6, <1>7 DEF MessageIsOffer
<1>12. BodyHasPipe'
  <2> SUFFICES ASSUME pc' = "body"
               PROVE  /\ response_ok(sess'.dresp)
                      /\ be'.epipe = sess'.n /\ be'.qq[sess'.n].env = <<>>
    BY <1>1 DEF BodyHasPipe
  <2>1. response_ok(o.resp)
    BY <1>1
  <2>2. be.qq[n].env = <<>>
    BY <1>5 DEF Inductive, NoEnvelopeYet
  <2> QED BY <1>3, <1>5, <1>6, <2>1, <2>2 DEF Keeps, KeepsOne
<1> QED BY <1>8, <1>9, <1>10, <1>11, <1>12 DEF Inductive, Processes

\* A block's arrival preserves the invariant.
LEMMA BlockArrivesPreserves ==
  ASSUME Inductive, BlockArrives
  PROVE  Inductive'
<1> DEFINE m == [mail[sess.n] EXCEPT !.blocks = @ + 1]
<1>1. /\ pc = "body" /\ pc' = "block"
      /\ mail' = [mail EXCEPT ![sess.n].blocks = @ + 1]
      /\ UNCHANGED <<saw_mail, saw_rcpt, sess, be, rcpts, offer>>
  BY DEF BlockArrives
<1>2. sess.n \in Message /\ Number = Message /\ mail \in [Number -> Mail]
  BY <1>1, Parameters DEF Inductive, MessageIsOffer, Active, TypeOK
<1>3. m \in Mail /\ m.offer = mail[sess.n].offer
  BY <1>2 DEF Mail
<1>4. mail' = [mail EXCEPT ![sess.n] = m]
  BY <1>1, <1>2
<1> HIDE DEF m
<1>5. mail' \in [Number -> Mail] /\ \A k \in Message : mail'[k].offer = mail[k].offer
  BY <1>2, <1>3, <1>4
<1>6. be \in QmailState /\ sess \in Session /\ Keeps(be.qq, be.qq)
  BY DEF Inductive, TypeOK, Keeps, KeepsOne
<1>7. Processes'
  <2>1. be'.qq \in [Message -> QmailQueue] /\ Keeps(be.qq, be'.qq) /\ sess.n <= sess'.n
    BY <1>1, <1>6 DEF QmailState, Session
  <2> QED BY <1>1, <1>5, <1>6, <2>1, ProcessesCarried
<1>8. TypeOK'
  BY <1>1, <1>5 DEF Inductive, TypeOK
<1>9. BufferIsOffer' /\ OfferHasRecipients'
  BY <1>1 DEF Inductive, BufferIsOffer, OfferHasRecipients
<1>10. MessageIsOffer' /\ BodyHasPipe'
  BY <1>1, <1>2, <1>5 DEF Inductive, MessageIsOffer, BodyHasPipe, Active
<1> QED BY <1>7, <1>8, <1>9, <1>10 DEF Inductive, Processes

\* handle_data_bytes preserves the invariant.
LEMMA BlockHandledPreserves ==
  ASSUME Inductive, BlockHandled
  PROVE  Inductive'
<1>0. PICK answers \in Chains : \E o \in handle_data_bytes(sess, be, answers) : Becomes(o)
  BY DEF BlockHandled
<1>1. PICK o \in handle_data_bytes(sess, be, answers) : Becomes(o)
  BY <1>0
<1>2. /\ o.sess \in Session /\ o.sess.n = sess.n
      /\ o.be \in QmailState
      /\ Keeps(be.qq, o.be.qq)
      /\ IF response_ok(o.sess.dresp)
         THEN /\ response_ok(sess.dresp)
              /\ o.be.buf = be.buf /\ o.be.epipe = be.epipe
         ELSE o.be.buf = IF response_ok(sess.dresp) THEN <<>> ELSE be.buf
  BY Parameters, DataBytesHandled DEF Inductive, TypeOK
<1>3. pc = "block" /\ pc' = "body" /\ UNCHANGED <<saw_mail, saw_rcpt, rcpts, offer, mail>>
  BY DEF BlockHandled
<1>4. sess' \in Session /\ sess'.n = sess.n /\ be' \in QmailState /\ Processes'
  BY <1>1, <1>2, <1>3, Undisturbed
<1>5. be' = o.be /\ sess' = o.sess
  BY <1>1 DEF Becomes
<1>6. TypeOK'
  BY <1>3, <1>4 DEF Inductive, TypeOK
<1>7. MessageIsOffer'
  BY <1>3, <1>4 DEF Inductive, MessageIsOffer, Active
<1>8. sess.n \in Message
  BY <1>3, Parameters DEF Inductive, MessageIsOffer, Active
<1>9. BodyHasPipe'
  <2>1. CASE response_ok(o.sess.dresp)
    <3>1. be.epipe = sess.n /\ be.qq[sess.n].env = <<>>
      BY <1>2, <1>3, <2>1 DEF Inductive, BodyHasPipe
    <3>2. o.be.qq[sess.n].env = <<>>
      BY <1>2, <1>8, <3>1 DEF Keeps, KeepsOne
    <3> QED BY <1>2, <1>5, <2>1, <3>1, <3>2 DEF BodyHasPipe
  <2>2. CASE ~ response_ok(o.sess.dresp)
    BY <1>2, <1>3, <1>5, <2>2 DEF Inductive, BodyHasPipe
  <2> QED BY <2>1, <2>2
<1>10. be'.buf \in {be.buf, <<>>}
  BY <1>2, <1>5
<1>11. BufferIsOffer' /\ OfferHasRecipients'
  BY <1>3, <1>10, NothingOpens DEF Inductive, BufferIsOffer, OfferHasRecipients
<1> QED BY <1>4, <1>6, <1>7, <1>9, <1>11 DEF Inductive, Processes

\* What the answer to a message does to the session, whichever action gives it.
LEMMA AnswersPreserves ==
  ASSUME Inductive, pc \in {"body", "ending"}, NEW o, Answers(o),
         o.sess \in Session, o.sess.n = sess.n, o.be \in QmailState,
         o.resp = "busy" => o.be.buf = be.buf,
         o.resp # "busy" => ~ Opens(o.be.buf),
         (\A k \in Message : mail'[k].offer = mail[k].offer) => Processes'
  PROVE  Inductive'
<1>1. /\ sess' = o.sess /\ be' = o.be
      /\ UNCHANGED <<saw_mail, saw_rcpt, rcpts>>
  BY DEF Answers, Becomes
<1>2. sess.n \in Message /\ Number = Message /\ mail \in [Number -> Mail]
      /\ offer = mail[sess.n].offer /\ offer \in Offer
  BY Parameters DEF Inductive, MessageIsOffer, Active, TypeOK
<1>3. CASE o.resp = "busy"
  <2>1. pc' = "ending" /\ UNCHANGED <<offer, mail>>
    BY <1>3 DEF Answers
  <2>2. Processes'
    BY <2>1
  <2>3. TypeOK'
    BY <1>1, <2>1 DEF Inductive, TypeOK
  <2>4. BufferIsOffer' /\ OfferHasRecipients'
    BY <1>1, <1>3, <2>1 DEF Inductive, BufferIsOffer, OfferHasRecipients
  <2>5. MessageIsOffer' /\ BodyHasPipe'
    BY <1>1, <1>2, <2>1 DEF MessageIsOffer, BodyHasPipe
  <2> QED BY <2>2, <2>3, <2>4, <2>5 DEF Inductive, Processes
<1>4. CASE o.resp # "busy"
  <2> DEFINE v == IF response_ok(o.resp) THEN "ack" ELSE "nak"
             m == [mail[sess.n] EXCEPT !.verdict = v]
  <2>1. /\ pc' = "command" /\ offer' = NoOffer
        /\ mail' = [mail EXCEPT ![sess.n].verdict = v]
    BY <1>4 DEF Answers
  <2>2. v \in Verdict
    BY DEF Verdict
  <2> HIDE DEF v
  <2>3. m \in Mail /\ m.offer = mail[sess.n].offer
    BY <1>2, <2>2 DEF Mail
  <2>4. mail' = [mail EXCEPT ![sess.n] = m]
    BY <2>1
  <2> HIDE DEF m
  <2>5. mail' \in [Number -> Mail] /\ \A k \in Message : mail'[k].offer = mail[k].offer
    BY <1>2, <2>3, <2>4
  <2>6. Processes'
    BY <2>5
  <2>7. TypeOK'
    BY <1>1, <2>1, <2>5, OfferTypes DEF Inductive, TypeOK
  <2>8. ~ Opens(be'.buf)
    BY <1>1, <1>4
  <2> QED BY <2>1, <2>6, <2>7, <2>8
       DEF Inductive, Processes, BufferIsOffer, OfferHasRecipients, MessageIsOffer,
           BodyHasPipe, Active
<1> QED BY <1>3, <1>4

\* handle_message_end preserves the invariant: the envelope written is the
\* message's offer.
LEMMA EndOfBodyPreserves ==
  ASSUME Inductive, EndOfBody
  PROVE  Inductive'
<1>0. PICK answers \in Chains : \E o \in handle_message_end(sess, be, answers) : Answers(o)
  BY DEF EndOfBody
<1>1. PICK o \in handle_message_end(sess, be, answers) : Answers(o)
  BY <1>0
<1>2. pc = "body"
  BY DEF EndOfBody
<1>3. /\ sess.n \in Message /\ offer = mail[sess.n].offer
      /\ be \in QmailState /\ sess \in Session
  BY <1>2, Parameters DEF Inductive, MessageIsOffer, Active, TypeOK
<1>4. IF response_ok(sess.dresp) THEN be.epipe = sess.n ELSE be.buf = <<>>
  BY <1>2 DEF Inductive, BodyHasPipe
<1>5. /\ o.sess \in Session /\ o.sess.n = sess.n
      /\ o.be \in QmailState
      /\ IF o.resp = "busy"
         THEN /\ response_ok(sess.dresp)
              /\ o.be.buf = be.buf
              /\ \A k \in Message :
                   IF k = be.epipe
                   THEN /\ o.be.qq[k].env = Append(be.buf, EndMark)
                        /\ o.be.qq[k].queued = be.qq[k].queued
                   ELSE KeepsOne(be.qq[k], o.be.qq[k])
         ELSE /\ Keeps(be.qq, o.be.qq)
              /\ o.be.buf = IF response_ok(sess.dresp) THEN <<>> ELSE be.buf
  BY <1>3, <1>4, MessageEndHandled
<1>6. o.resp # "busy" => ~ Opens(o.be.buf)
  BY <1>4, <1>5, NothingOpens
<1>7. sess' = o.sess /\ be' = o.be
  BY <1>1 DEF Answers, Becomes
<1>8. ASSUME \A k \in Message : mail'[k].offer = mail[k].offer
      PROVE  Processes'
  <2>1. CASE o.resp # "busy"
    <3>1. be'.qq \in [Message -> QmailQueue] /\ Keeps(be.qq, be'.qq)
          /\ sess' \in Session /\ sess.n <= sess'.n
      BY <1>3, <1>5, <1>7, <2>1, SMTT(30) DEF QmailState, Session
    <3> QED BY <1>8, <3>1, ProcessesCarried
  <2>2. CASE o.resp = "busy"
    <3> DEFINE n == sess.n
    <3>1. /\ sess'.n = n /\ be.epipe = n
          /\ be'.qq[n].env = Append(be.buf, EndMark)
          /\ be'.qq[n].queued = be.qq[n].queued
          /\ \A k \in Message \ {n} : KeepsOne(be.qq[k], be'.qq[k])
      BY <1>3, <1>4, <1>5, <1>7, <2>2
    <3>2. be.qq[n].env = <<>>
      BY <1>2, <1>5, <2>2 DEF Inductive, BodyHasPipe
    <3>3. ~ be.qq[n].queued
      BY <1>3, <3>2 DEF Inductive, QueuedIsComplete, Complete
    <3>4. ASSUME Opens(be'.qq[n].env)
          PROVE  /\ mail'[n].offer.to # <<>>
                 /\ be'.qq[n].env = Append(Envelope(mail'[n].offer), EndMark)
      <4>1. be.buf \in Seq(Entry) /\ EndMark \in Entry /\ EndMark[1] # "F"
        BY <1>3, MarkTypes DEF QmailState, EndMark
      <4>2. Opens(be.buf)
        BY <3>1, <3>4, <4>1, OpensIsFirst
      <4>3. be.buf = Envelope(offer) /\ offer.to # <<>>
        BY <1>2, <4>2 DEF Inductive, BufferIsOffer, OfferHasRecipients
      <4> QED BY <1>3, <1>8, <3>1, <4>3
    <3>5. ASSUME NEW k \in Message, k # n
          PROVE  /\ be'.qq[k].queued = be.qq[k].queued
                 /\ \/ be'.qq[k].env = be.qq[k].env
                    \/ be'.qq[k].env = <<>> /\ ~ be'.qq[k].queued
                 /\ mail'[k].offer = mail[k].offer
      BY <1>8, <3>1, <3>5 DEF KeepsOne
    <3>6. n \in Nat
      BY <1>3 DEF Session
    <3> HIDE DEF n
    <3>7. EnvelopesAreOffers'
      BY <3>4, <3>5, NothingOpens DEF Inductive, EnvelopesAreOffers, Opens
    <3>8. NoEnvelopeYet'
      BY <3>1, <3>5, <3>6 DEF Inductive, NoEnvelopeYet, n, Message
    <3>9. QueuedIsComplete'
      BY <3>1, <3>3, <3>5 DEF Inductive, QueuedIsComplete
    <3> QED BY <3>7, <3>8, <3>9 DEF Processes
  <2> QED BY <2>1, <2>2
<1> QED BY <1>1, <1>2, <1>5, <1>6, <1>8, AnswersPreserves

\* The rest of message_end preserves the invariant.
LEMMA EndGoesOnPreserves ==
  ASSUME Inductive, EndGoesOn
  PROVE  Inductive'
<1>1. PICK o \in handle_message_end_goes_on(sess, be) : Answers(o)
  BY DEF EndGoesOn
<1>2. pc = "ending"
  BY DEF EndGoesOn
<1>3. /\ o.sess \in Session /\ o.sess.n = sess.n
      /\ o.be \in QmailState /\ Keeps(be.qq, o.be.qq)
      /\ IF o.resp = "busy" THEN o.be.buf = be.buf
         ELSE o.be.buf \in {<<>>, <<Text>>}
  BY EndGoesOnHandled DEF Inductive, TypeOK
<1>4. o.resp # "busy" => ~ Opens(o.be.buf)
  BY <1>3, NothingOpens
<1>5. Becomes(o)
  BY <1>1 DEF Answers
<1>6. (\A k \in Message : mail'[k].offer = mail[k].offer) => Processes'
  BY <1>3, <1>5, Undisturbed
<1> QED BY <1>1, <1>2, <1>3, <1>4, <1>6, AnswersPreserves

\* A process's own steps, and its death, preserve the invariant.
LEMMA QmailQueuePreserves ==
  ASSUME Inductive, NEW k \in Message, QmailQueueProceeds(k) \/ QmailQueueFails(k)
  PROVE  Inductive'
<1>1. PICK q \in Proceeds(be.qq[k]) \cup Fails(be.qq[k]) : be' = [be EXCEPT !.qq[k] = q]
  BY DEF QmailQueueProceeds, QmailQueueFails, Moves
<1>2. UNCHANGED <<pc, saw_mail, saw_rcpt, sess, rcpts, offer, mail>>
  BY DEF QmailQueueProceeds, QmailQueueFails, Moves
<1>3. be \in QmailState /\ be.qq[k] \in QmailQueue
  BY DEF Inductive, TypeOK, QmailState
<1>4. /\ q \in QmailQueue /\ q.env = be.qq[k].env
      /\ q.queued = be.qq[k].queued \/ (q.queued /\ Complete(q.env))
  BY <1>3, ProcessMoves
<1>5. /\ be' = [be EXCEPT !.qq = [be.qq EXCEPT ![k] = q]]
      /\ [be.qq EXCEPT ![k] = q] \in [Message -> QmailQueue]
  BY <1>1, <1>3, <1>4 DEF QmailState
<1>6. /\ be' \in QmailState /\ be'.buf = be.buf /\ be'.epipe = be.epipe
      /\ \A j \in Message : be'.qq[j] = IF j = k THEN q ELSE be.qq[j]
  BY <1>3, <1>5 DEF QmailState
<1>7. \A j \in Message : be'.qq[j].env = be.qq[j].env
  BY <1>4, <1>6
<1>8. TypeOK'
  BY <1>2, <1>6 DEF Inductive, TypeOK
<1>9. BufferIsOffer' /\ OfferHasRecipients' /\ MessageIsOffer'
  BY <1>2, <1>6 DEF Inductive, BufferIsOffer, OfferHasRecipients, MessageIsOffer, Active
<1>10. BodyHasPipe'
  <2>1. pc \in {"body", "block"} => sess.n \in Message
    BY Parameters DEF Inductive, MessageIsOffer, Active
  <2> QED BY <1>2, <1>6, <1>7, <2>1 DEF Inductive, BodyHasPipe
<1>11. EnvelopesAreOffers' /\ NoEnvelopeYet'
  BY <1>2, <1>7 DEF Inductive, EnvelopesAreOffers, NoEnvelopeYet
<1>12. QueuedIsComplete'
  BY <1>4, <1>6, <1>7 DEF Inductive, QueuedIsComplete
<1> QED BY <1>8, <1>9, <1>10, <1>11, <1>12 DEF Inductive

-----------------------------------------------------------------------------
(* The theorems                                                            *)

\* A new session satisfies the invariant.
LEMMA InitEstablishes ==
  ASSUME Init
  PROVE  Inductive
<1>1. PICK need \in NeedsFile :
        sess = NewSession(need)
  BY DEF Init, SmtpInit
<1>2. /\ pc = "command" /\ saw_mail = FALSE /\ saw_rcpt = FALSE /\ be = QmailInit
      /\ rcpts = 0 /\ offer = NoOffer
      /\ mail = [n \in Number |-> NoMail]
  BY DEF Init, SmtpInit
<1>3. sess \in Session
  <2>1. need \in BOOLEAN /\ 0 \in 0 .. MaxMessages
    BY SmtpQmailAssumption DEF SmtpParameters
  <2> QED BY <1>1, <2>1 DEF Session, NewSession
<1>4. mail \in [Number -> Mail]
  BY <1>2, OfferTypes DEF Mail, Verdict, NoMail
<1>5. TypeOK
  BY <1>2, <1>3, <1>4, InitType, OfferTypes DEF TypeOK
<1>6. be.buf = <<>> /\ \A k \in Message : be.qq[k].env = <<>> /\ ~ be.qq[k].queued
  BY <1>2 DEF QmailInit, NoProcess
<1>7. EnvelopesAreOffers /\ NoEnvelopeYet /\ QueuedIsComplete
  BY <1>6, NothingOpens DEF EnvelopesAreOffers, NoEnvelopeYet, QueuedIsComplete
<1>8. BufferIsOffer /\ OfferHasRecipients /\ MessageIsOffer /\ BodyHasPipe
  BY <1>2, <1>6, NothingOpens
     DEF BufferIsOffer, OfferHasRecipients, MessageIsOffer, BodyHasPipe, Active
<1> QED BY <1>5, <1>7, <1>8 DEF Inductive

\* Every step preserves it, when memory does not run out.
LEMMA NextPreserves ==
  ASSUME "oom" \notin QmailFaults, Inductive, [Next]_vars
  PROVE  Inductive'
<1>1. CASE HELO
  BY <1>1, HELOPreserves
<1>2. CASE ResetFails
  BY <1>2, ResetFailsPreserves
<1>3. CASE RSET
  BY <1>3, RSETPreserves
<1>4. ASSUME NEW a \in Address, MAIL(a)
      PROVE  Inductive'
  BY <1>4, MAILPreserves
<1>5. ASSUME NEW a \in Address, RCPT(a)
      PROVE  Inductive'
  BY <1>5, RCPTPreserves
<1>6. CASE DATA
  BY <1>6, DATAPreserves
<1>7. CASE BlockArrives
  BY <1>7, BlockArrivesPreserves
<1>8. CASE BlockHandled
  BY <1>8, BlockHandledPreserves
<1>9. CASE EndOfBody
  BY <1>9, EndOfBodyPreserves
<1>10. CASE EndGoesOn
  BY <1>10, EndGoesOnPreserves
<1>11. CASE Leave \/ Alarm
  BY <1>11, LeavePreserves
<1>12. ASSUME NEW k \in Message, QmailQueueProceeds(k) \/ QmailQueueFails(k)
       PROVE  Inductive'
  BY <1>12, QmailQueuePreserves
<1>13. CASE UNCHANGED vars
  BY <1>13 DEF vars, Inductive, TypeOK, BufferIsOffer, OfferHasRecipients,
               MessageIsOffer, BodyHasPipe, EnvelopesAreOffers, NoEnvelopeYet,
               QueuedIsComplete, Active
<1> QED BY <1>1, <1>2, <1>3, <1>4, <1>5, <1>6, <1>7, <1>8, <1>9, <1>10, <1>11,
           <1>12, <1>13 DEF Next, SmtpNext

(***************************************************************************)
(* The invariant always holds, for any addresses, chains of plugins,       *)
(* numbers of messages, recipients and blocks, capacity of pipes and       *)
(* faults, want of memory apart: a recipient that do_recipient could only  *)
(* half append is refused, and yet is in the envelope.                     *)
(***************************************************************************)
THEOREM InductiveAlways ==
  ASSUME "oom" \notin QmailFaults
  PROVE  Spec => []Inductive
<1>1. Init => Inductive
  BY InitEstablishes
<1>2. Inductive /\ [Next]_vars => Inductive'
  BY NextPreserves
<1> QED BY <1>1, <1>2, PTL DEF Spec

\* A complete envelope starts with a sender.
LEMMA CompleteOpens ==
  ASSUME NEW env, Complete(env)
  PROVE  Opens(env)
  BY DEF Complete, Opens

(***************************************************************************)
(* Whatever the client sends, however calls fail and processes die, only   *)
(* the envelope that the client was told is accepted is ever queued.       *)
(***************************************************************************)
THEOREM OnlyAcceptedIsQueued ==
  ASSUME "oom" \notin QmailFaults
  PROVE  Spec => []QueuedWasAccepted
<1>1. Inductive => QueuedWasAccepted
  BY CompleteOpens DEF Inductive, QueuedIsComplete, EnvelopesAreOffers, QueuedWasAccepted
<1> QED BY <1>1, InductiveAlways, PTL


-----------------------------------------------------------------------------
(***************************************************************************)
(* What becomes of the messages.  The invariant follows each message from  *)
(* the client's blocks through the pipe or the scratch file to its process,*)
(* and the process to the answer; unlike the one above it needs nothing of *)
(* the envelope but whether it was written, and no memory.                 *)
(***************************************************************************)

\* Everything the process of message x may still do is what the client is told.
ProcessHolds(q, x) ==
  /\ Sound(q)
  /\ x.verdict = "ack" => q.queued
  /\ x.verdict \in {"nak", "cut"} => q.queued \/ Barred(q)
  /\ "block" \notin QmailFaults => Whole(q, x.blocks)

ProcessesHold(qq, m) == \A k \in Message : ProcessHolds(qq[k], m[k])

\* Of messages after the n-th nothing was written.
NoneAfter(n, qq) == \A k \in Message : k > n => qq[k].env = <<>>

\* The blocks of the message that is arriving that were handed on.
Handed(p, s, m) == IF p = "block" THEN m[s.n].blocks - 1 ELSE m[s.n].blocks

(***************************************************************************)
(* While it arrives, all that was handed on is in the scratch file or went *)
(* to the message's own process, or the message was reset.                 *)
(***************************************************************************)
BodyIsFed(p, s, b, m) ==
  /\ s.n \in Message /\ m[s.n].verdict = "open" /\ b.qq[s.n].env = <<>>
  /\ p = "block" => m[s.n].blocks > 0
  /\ IF ~ response_ok(s.dresp) THEN b.epipe = 0 /\ b.mpipe = 0
     ELSE /\ b.epipe = s.n
          /\ IF s.fd THEN b.mpipe = 0 /\ s.file = Handed(p, s, m)
             ELSE /\ b.mpipe = s.n /\ b.pid = s.n
                  /\ "block" \notin QmailFaults => b.qq[s.n].msg = Handed(p, s, m)

\* The process that is waited for is the message's own.
EndIsOwn(s, b, m) ==
  /\ s.n \in Message /\ m[s.n].verdict = "open"
  /\ b.pid = s.n /\ b.mpipe = 0
  /\ b.epipe = IF b.phase = "envelope" THEN s.n ELSE 0

Delivers(p, s, b, m) ==
  /\ ProcessesHold(b.qq, m) /\ NoneAfter(s.n, b.qq)
  /\ p = "command" => b.epipe = 0 /\ b.mpipe = 0
  /\ p \in {"body", "block"} => BodyIsFed(p, s, b, m)
  /\ p = "ending" => EndIsOwn(s, b, m)

Delivery == TypeOK /\ Delivers(pc, sess, be, mail)


-----------------------------------------------------------------------------
(* Processes, spared or not                                                *)

QueuesNothing(qq, rr) == \A k \in Message : rr[k].queued = qq[k].queued

\* Nothing was sent of the envelope nor read nor queued, though it may have been started.
Unwritten(p, q) ==
  /\ q.env = p.env /\ q.sent = p.sent /\ q.read = p.read /\ q.queued = p.queued
  /\ q.st \in {p.st, "run"}

\* Spared processes hold what they held, and queue nothing.
LEMMA NoneChanges ==
  ASSUME NEW qq, NEW rr, NEW m, ProcessesHold(qq, m), SparesAll(qq, rr)
  PROVE  ProcessesHold(rr, m) /\ QueuesNothing(qq, rr)
<1>1. ASSUME NEW k \in Message
      PROVE  ProcessHolds(rr[k], m[k]) /\ rr[k].queued = qq[k].queued
  <2>1. Spares(qq[k], rr[k]) /\ ProcessHolds(qq[k], m[k])
    BY DEF SparesAll, ProcessesHold
  <2>2. /\ Sound(rr[k]) /\ (Barred(qq[k]) => Barred(rr[k]))
        /\ \A n : Whole(qq[k], n) => Whole(rr[k], n)
    BY <2>1, SparesProcess DEF ProcessHolds
  <2>3. rr[k].queued = qq[k].queued
    BY <2>1 DEF Spares
  <2> QED BY <2>1, <2>2, <2>3 DEF ProcessHolds
<1> QED BY <1>1 DEF ProcessesHold, QueuesNothing

\* Only message n and its process change, and it holds.
LEMMA OneChanges ==
  ASSUME NEW n \in Message, NEW qq, NEW rr, NEW m, NEW m2,
         ProcessesHold(qq, m), SparesBut(qq, rr, n),
         ProcessHolds(rr[n], m2[n]), \A k \in Message : k # n => m2[k] = m[k]
  PROVE  ProcessesHold(rr, m2)
<1>1. ASSUME NEW k \in Message, k # n
      PROVE  ProcessHolds(rr[k], m2[k])
  <2>1. Spares(qq[k], rr[k]) /\ ProcessHolds(qq[k], m[k]) /\ m2[k] = m[k]
    BY <1>1 DEF SparesBut, ProcessesHold
  <2>2. /\ Sound(rr[k]) /\ (Barred(qq[k]) => Barred(rr[k]))
        /\ \A x : Whole(qq[k], x) => Whole(rr[k], x)
    BY <2>1, SparesProcess DEF ProcessHolds
  <2>3. rr[k].queued = qq[k].queued
    BY <2>1 DEF Spares
  <2> QED BY <2>1, <2>2, <2>3 DEF ProcessHolds
<1> QED BY <1>1 DEF ProcessesHold

\* ... so that the processes queue nothing if its does not.
LEMMA OneQueues ==
  ASSUME NEW n \in Message, NEW qq, NEW rr, SparesBut(qq, rr, n),
         rr[n].queued = qq[n].queued
  PROVE  QueuesNothing(qq, rr)
<1>1. ASSUME NEW k \in Message
      PROVE  rr[k].queued = qq[k].queued
  BY DEF SparesBut, Spares
<1> QED BY <1>1 DEF QueuesNothing

\* The messages to come are untouched by what touches no other than the n-th.
LEMMA NoneAfterKept ==
  ASSUME NEW i \in Nat, NEW n \in Nat, i <= n,
         NEW qq, NEW rr, NoneAfter(i, qq), SparesBut(qq, rr, n)
  PROVE  NoneAfter(n, rr)
<1> SUFFICES ASSUME NEW k \in Message, k > n
             PROVE  rr[k].env = <<>>
  BY DEF NoneAfter
<1>1. k # n /\ k > i
  BY DEF Message
<1> QED BY <1>1 DEF NoneAfter, SparesBut, Spares

\* A process whose envelope is not written holds whatever its message is told but
\* success.
LEMMA UnwrittenHolds ==
  ASSUME NEW p, NEW q, NEW x, p.env = <<>>, Sound(p), Unwritten(p, q), x.verdict # "ack"
  PROVE  ProcessHolds(q, x)
<1>1. q.env = <<>> /\ ~ q.queued /\ Sound(q)
  BY DEF Sound, Unwritten
<1>2. Barred(q) /\ \A n : Whole(q, n)
  BY <1>1 DEF Barred, Complete, Whole
<1> QED BY <1>1, <1>2 DEF ProcessHolds

LEMMA SparedIsUnwritten ==
  ASSUME NEW p, NEW q, NEW r, Spares(q, r)
  PROVE  Unwritten(q, r) /\ (Unwritten(p, q) => Unwritten(p, r))
  BY DEF Spares, Unwritten

-----------------------------------------------------------------------------
(* What the handlers do to the pipes                                       *)

\* A reset closes the pipes and spares the processes.
LEMMA ResetCloses ==
  ASSUME NEW s \in Session, NEW b \in QmailState, NEW answers, NEW r,
         NEW o \in {handle_reset(s, b, answers), ResetAnd(s, b, r)}
  PROVE  /\ o.sess \in Session /\ o.sess.n = s.n /\ o.sess.dresp = s.dresp
         /\ o.be \in QmailState /\ o.be.epipe = 0 /\ o.be.mpipe = 0
         /\ SparesAll(b.qq, o.be.qq)
<1>1. o.sess = CloseFile(s) /\ o.be = reset(b)
  BY DEF handle_reset, ResetAnd, Outcome
<1> QED BY <1>1, CloseFileType, PipesClosed

\* The address handlers touch neither.
LEMMA AddressHandled ==
  ASSUME NEW s \in Session, NEW b \in QmailState, NEW a \in Address, NEW answers,
         NEW o \in handle_sender(s, b, a, answers) \cup handle_recipient(s, b, a, answers)
  PROVE  o.sess = s /\ Aside(b, o.be)
<1> DEFINE resp == MODULE_CALL("none", answers)
<1>1. CASE o = Outcome(s, b, "perm") \/ o = Outcome(s, b, resp)
  BY <1>1 DEF Outcome, Aside
<1>2. ASSUME NEW p \in do_sender(b, a) \cup do_recipient(b, a),
             o = Outcome(s, p.be, IF response_ok(p.resp) THEN resp ELSE p.resp)
      PROVE  o.sess = s /\ Aside(b, o.be)
  <2>1. Aside(b, p.be)
    BY AddressesAside
  <2>2. o.sess = s /\ o.be = p.be
    BY <1>2 DEF Outcome
  <2> QED BY <2>1, <2>2
<1>3. \/ o = Outcome(s, b, "perm") \/ o = Outcome(s, b, resp)
      \/ \E p \in do_sender(b, a) \cup do_recipient(b, a) :
           o = Outcome(s, p.be, IF response_ok(p.resp) THEN resp ELSE p.resp)
  BY DEF handle_sender, handle_recipient
<1> HIDE DEF resp
<1> QED BY <1>1, <1>2, <1>3


(***************************************************************************)
(* With no pipe open, handle_data_start opens the next message's, and      *)
(* starts its process or makes its scratch file; refused, none is open.    *)
(***************************************************************************)
LEMMA DataStartOpens ==
  ASSUME NEW s \in Session, s.n < MaxMessages,
         NEW b \in QmailState, b.epipe = 0, b.mpipe = 0,
         NEW answers, NEW o \in handle_data_start(s, b, answers),
         NEW n \in Message, n = s.n + 1
  PROVE  /\ o.sess \in Session /\ o.sess.n = n /\ o.be \in QmailState
         /\ SparesBut(b.qq, o.be.qq, n) /\ Unwritten(b.qq[n], o.be.qq[n])
         /\ IF ~ response_ok(o.resp) THEN o.be.epipe = 0 /\ o.be.mpipe = 0
            ELSE /\ response_ok(o.sess.dresp) /\ o.be.epipe = n
                 /\ IF o.sess.fd THEN o.be.mpipe = 0 /\ o.sess.file = 0
                    ELSE o.be.mpipe = n /\ o.be.pid = n /\ o.be.qq[n].msg = 0
<1> DEFINE t      == [CloseFile(s) EXCEPT !.n = @ + 1]
           opened == [t EXCEPT !.fd = t.need, !.dresp = "none"]
           then(p) == LET resp == MODULE_CALL(p.resp, answers)
                      IN  IF ~ response_ok(p.resp)
                          THEN ResetAnd([opened EXCEPT !.dresp = p.resp], p.be, p.resp)
                          ELSE IF ~ response_ok(resp) THEN ResetAnd(opened, p.be, resp)
                          ELSE Outcome(opened, p.be, resp)
           Closed == /\ o.sess \in Session /\ o.sess.n = n /\ o.be \in QmailState
                     /\ SparesBut(b.qq, o.be.qq, n) /\ Unwritten(b.qq[n], o.be.qq[n])
                     /\ ~ response_ok(o.resp) /\ o.be.epipe = 0 /\ o.be.mpipe = 0
<1>0. s.n + 1 \in 0 .. MaxMessages
  BY DEF Session, Message
<1>1. t \in Session /\ t.n = n /\ t.file = 0
  <2> DEFINE c == CloseFile(s)
  <2>1. c \in Session /\ c.n = s.n /\ c.file = 0
    BY CloseFileType DEF CloseFile, Session
  <2> HIDE DEF c
  <2>2. LET d == [c EXCEPT !.n = c.n + 1]
        IN  d \in Session /\ d.n = c.n + 1 /\ d.file = c.file
    BY <1>0, <2>1 DEF Session
  <2> QED BY <2>1, <2>2 DEF c
<1> HIDE DEF t
<1>2. /\ opened \in Session /\ opened.n = n /\ opened.dresp = "none" /\ opened.fd \in BOOLEAN
      /\ opened.file = 0
  BY <1>1 DEF Session
<1> HIDE DEF opened
<1>3. ASSUME o = Outcome(t, b, "temp")
      PROVE  Closed
  <2>1. SparesBut(b.qq, b.qq, n) /\ Unwritten(b.qq[n], b.qq[n])
    BY DEF SparesBut, Spares, Unwritten
  <2> QED BY <1>1, <1>3, <2>1 DEF Outcome, response_ok
<1>4. ASSUME NEW u \in Session, u.n = n, NEW c \in QmailState, NEW r, ~ response_ok(r),
             SparesBut(b.qq, c.qq, n), Unwritten(b.qq[n], c.qq[n]),
             o = ResetAnd(u, c, r)
      PROVE  Closed
  <2>1. /\ o.sess \in Session /\ o.sess.n = n
        /\ o.be \in QmailState /\ o.be.epipe = 0 /\ o.be.mpipe = 0
        /\ SparesAll(c.qq, o.be.qq)
    BY <1>4, ResetCloses
  <2>2. o.resp = r
    BY <1>4 DEF ResetAnd, Outcome
  <2>3. Spares(c.qq[n], o.be.qq[n]) /\ SparesBut(c.qq, o.be.qq, n)
    BY <2>1 DEF SparesAll, SparesBut
  <2>4. SparesBut(b.qq, o.be.qq, n) /\ Unwritten(b.qq[n], o.be.qq[n])
    BY <1>4, <2>3, SparesButTransitive, SparedIsUnwritten
  <2> QED BY <1>4, <2>1, <2>2, <2>4
<1> HIDE DEF Closed
<1>5. ASSUME NEW p \in data_start(b, opened.fd, opened.n), o = then(p)
      PROVE  \/ Closed
             \/ /\ o.sess = opened /\ o.be = p.be /\ p.resp = "none" /\ response_ok(o.resp)
                /\ SparesBut(b.qq, p.be.qq, n) /\ Unwritten(b.qq[n], p.be.qq[n])
  <2> DEFINE resp == MODULE_CALL(p.resp, answers)
  <2>1. /\ p.be \in QmailState /\ p.resp \in {"none", "temp"}
        /\ SparesBut(b.qq, p.be.qq, n) /\ Unwritten(b.qq[n], p.be.qq[n])
    <3>1. p \in data_start(b, opened.fd, n)
      BY <1>2
    <3>2. /\ p.be \in QmailState
          /\ \/ /\ p.resp = "none"
                /\ SparesBut(b.qq, p.be.qq, n)
                /\ Unwritten(b.qq[n], p.be.qq[n])
             \/ p.resp = "temp" /\ SparesAll(b.qq, p.be.qq)
      BY <1>2, <3>1, DataStartStarts, SMTT(30) DEF Unwritten
    <3>3. SparesAll(b.qq, p.be.qq) =>
            SparesBut(b.qq, p.be.qq, n) /\ Unwritten(b.qq[n], p.be.qq[n])
      BY SparedIsUnwritten DEF SparesAll, SparesBut
    <3> QED BY <3>2, <3>3
  <2>2. CASE p.resp = "temp"
    <3> DEFINE u == [opened EXCEPT !.dresp = "temp"]
    <3>1. u \in Session /\ u.n = n
      BY <1>2 DEF Session
    <3>2. o = ResetAnd(u, p.be, "temp") /\ ~ response_ok("temp")
      BY <1>5, <2>2 DEF response_ok
    <3> HIDE DEF u
    <3> QED BY <1>4, <2>1, <3>1, <3>2
  <2>3. CASE p.resp = "none" /\ ~ response_ok(resp)
    <3>1. o = ResetAnd(opened, p.be, resp)
      BY <1>5, <2>3 DEF response_ok
    <3> HIDE DEF resp
    <3> QED BY <1>2, <1>4, <2>1, <2>3, <3>1
  <2>4. CASE p.resp = "none" /\ response_ok(resp)
    <3>1. o = Outcome(opened, p.be, resp)
      BY <1>5, <2>4 DEF response_ok
    <3> QED BY <2>1, <2>4, <3>1 DEF Outcome
  <2> QED BY <2>1, <2>2, <2>3, <2>4
<1>6. ASSUME NEW p \in data_start(b, opened.fd, opened.n), p.resp = "none",
             o.sess = opened, o.be = p.be
      PROVE  /\ o.sess \in Session /\ o.sess.n = n /\ o.be \in QmailState
             /\ response_ok(o.sess.dresp) /\ o.be.epipe = n
             /\ IF o.sess.fd THEN o.be.mpipe = 0 /\ o.sess.file = 0
                ELSE o.be.mpipe = n /\ o.be.pid = n /\ o.be.qq[n].msg = 0
  <2>1. p \in data_start(b, opened.fd, n)
    BY <1>2
  <2>2. /\ p.be \in QmailState /\ p.be.epipe = n
        /\ IF opened.fd THEN p.be.mpipe = b.mpipe
           ELSE p.be.mpipe = n /\ p.be.pid = n /\ p.be.qq[n].msg = 0
    BY <1>2, <1>6, <2>1, DataStartStarts
  <2>3. response_ok("none")
    BY DEF response_ok
  <2> QED BY <1>2, <1>6, <2>2, <2>3
<1>7. o = Outcome(t, b, "temp")
      \/ \E p \in data_start(b, opened.fd, opened.n) : o = then(p)
  BY DEF handle_data_start, t, opened
<1> HIDE DEF then
<1>8. Closed \/ \E p \in data_start(b, opened.fd, opened.n) :
                  /\ p.resp = "none" /\ o.sess = opened /\ o.be = p.be /\ response_ok(o.resp)
                  /\ SparesBut(b.qq, p.be.qq, n) /\ Unwritten(b.qq[n], p.be.qq[n])
  BY <1>3, <1>5, <1>7 DEF then
<1>9. CASE Closed
  BY <1>9 DEF Closed
<1>10. ASSUME NEW p \in data_start(b, opened.fd, opened.n),
              p.resp = "none", o.sess = opened, o.be = p.be, response_ok(o.resp),
              SparesBut(b.qq, p.be.qq, n), Unwritten(b.qq[n], p.be.qq[n])
       PROVE  /\ o.sess \in Session /\ o.sess.n = n /\ o.be \in QmailState
              /\ SparesBut(b.qq, o.be.qq, n) /\ Unwritten(b.qq[n], o.be.qq[n])
              /\ IF ~ response_ok(o.resp) THEN o.be.epipe = 0 /\ o.be.mpipe = 0
                 ELSE /\ response_ok(o.sess.dresp) /\ o.be.epipe = n
                      /\ IF o.sess.fd THEN o.be.mpipe = 0 /\ o.sess.file = 0
                         ELSE o.be.mpipe = n /\ o.be.pid = n /\ o.be.qq[n].msg = 0
  BY <1>6, <1>10
<1> QED BY <1>8, <1>9, <1>10


(***************************************************************************)
(* handle_data_bytes hands the block to the scratch file or to the         *)
(* message's process; the first error it records closes the pipes, and     *)
(* after it nothing is done.                                               *)
(***************************************************************************)
LEMMA DataBytesFeeds ==
  ASSUME NEW s \in Session, NEW b \in QmailState, NEW answers \in Seq(Response),
         NEW o \in handle_data_bytes(s, b, answers),
         NEW n \in Message, b.mpipe \in {0, n}
  PROVE  /\ o.sess \in Session /\ o.sess.n = s.n /\ o.be \in QmailState
         /\ SparesBut(b.qq, o.be.qq, n) /\ Unwritten(b.qq[n], o.be.qq[n])
         /\ \/ ~ response_ok(s.dresp) /\ o.sess = s /\ o.be = b
            \/ ~ response_ok(o.sess.dresp) /\ o.be.epipe = 0 /\ o.be.mpipe = 0
            \/ /\ response_ok(s.dresp)
               /\ o.sess.dresp = s.dresp /\ o.sess.fd = s.fd
               /\ o.sess.file = IF s.fd THEN s.file + 1 ELSE s.file
               /\ o.be.epipe = b.epipe /\ o.be.mpipe = b.mpipe /\ o.be.pid = b.pid
               /\ b.mpipe = n /\ "block" \notin QmailFaults =>
                    o.be.qq[n].msg = b.qq[n].msg + 1
<1> DEFINE resp == FirstError(answers)
           Shut == /\ o.sess \in Session /\ o.sess.n = s.n /\ o.be \in QmailState
                   /\ SparesBut(b.qq, o.be.qq, n) /\ Unwritten(b.qq[n], o.be.qq[n])
                   /\ ~ response_ok(o.sess.dresp) /\ o.be.epipe = 0 /\ o.be.mpipe = 0
           Fed  == /\ o.sess \in Session /\ o.sess.n = s.n /\ o.be \in QmailState
                   /\ SparesBut(b.qq, o.be.qq, n) /\ Unwritten(b.qq[n], o.be.qq[n])
                   /\ response_ok(s.dresp)
                   /\ o.sess.dresp = s.dresp /\ o.sess.fd = s.fd
                   /\ o.sess.file = IF s.fd THEN s.file + 1 ELSE s.file
                   /\ o.be.epipe = b.epipe /\ o.be.mpipe = b.mpipe /\ o.be.pid = b.pid
                   /\ b.mpipe = n /\ "block" \notin QmailFaults =>
                        o.be.qq[n].msg = b.qq[n].msg + 1
<1>0. SparesBut(b.qq, b.qq, n) /\ Unwritten(b.qq[n], b.qq[n])
  BY DEF SparesBut, Spares, Unwritten
<1>1. CASE ~ response_ok(s.dresp) /\ o = Outcome(s, b, "none")
  BY <1>0, <1>1 DEF Outcome
<1>2. ASSUME NEW r \in {"temp", "perm"}, NEW c \in QmailState,
             SparesBut(b.qq, c.qq, n), Unwritten(b.qq[n], c.qq[n]),
             o = ResetAnd([s EXCEPT !.dresp = r], c, "none")
      PROVE  Shut
  <2> DEFINE u == [s EXCEPT !.dresp = r]
  <2>1. u \in Session /\ u.n = s.n /\ u.dresp = r
    BY DEF Session
  <2>2. o = ResetAnd(u, c, "none")
    BY <1>2
  <2> HIDE DEF u
  <2>3. /\ o.sess \in Session /\ o.sess.n = s.n /\ o.sess.dresp = r
        /\ o.be \in QmailState /\ o.be.epipe = 0 /\ o.be.mpipe = 0 /\ SparesAll(c.qq, o.be.qq)
    BY <2>1, <2>2, ResetCloses
  <2>4. Spares(c.qq[n], o.be.qq[n]) /\ SparesBut(c.qq, o.be.qq, n)
    BY <2>3 DEF SparesAll, SparesBut
  <2>5. SparesBut(b.qq, o.be.qq, n) /\ Unwritten(b.qq[n], o.be.qq[n])
    BY <1>2, <2>4, SparesButTransitive, SparedIsUnwritten
  <2>6. ~ response_ok(r)
    BY DEF response_ok
  <2> QED BY <2>3, <2>5, <2>6
<1>3. ASSUME ~ response_ok(resp), o = ResetAnd([s EXCEPT !.dresp = resp], b, "none")
      PROVE  Shut
  <2>1. resp \in {"temp", "perm"}
    BY <1>3, FirstErrorType, Errors
  <2> HIDE DEF resp, Shut
  <2> QED BY <1>0, <1>2, <1>3, <2>1
<1>4. ASSUME NEW p \in data_block(b)
      PROVE  /\ p.be \in QmailState
             /\ p.be.epipe = b.epipe /\ p.be.mpipe = b.mpipe /\ p.be.pid = b.pid
             /\ SparesBut(b.qq, p.be.qq, n) /\ Unwritten(b.qq[n], p.be.qq[n])
             /\ b.mpipe = n /\ "block" \notin QmailFaults =>
                  p.be.qq[n].msg = b.qq[n].msg + 1
  <2>1. 0 \notin Message
    BY DEF Message
  <2>2. /\ p.be \in QmailState
        /\ p.be.epipe = b.epipe /\ p.be.mpipe = b.mpipe /\ p.be.pid = b.pid
        /\ \/ SparesAll(b.qq, p.be.qq) /\ (b.mpipe = 0 \/ "block" \in QmailFaults)
           \/ /\ b.mpipe \in Message /\ SparesBut(b.qq, p.be.qq, b.mpipe)
              /\ p.be.qq[b.mpipe].msg = b.qq[b.mpipe].msg + 1
              /\ Unwritten(b.qq[b.mpipe], p.be.qq[b.mpipe])
    BY DataBlockCounts DEF Unwritten
  <2>3. SparesAll(b.qq, p.be.qq) =>
          SparesBut(b.qq, p.be.qq, n) /\ Unwritten(b.qq[n], p.be.qq[n])
    BY SparedIsUnwritten DEF SparesAll, SparesBut
  <2> QED BY <2>1, <2>2, <2>3
<1>5. ASSUME response_ok(s.dresp), ~ s.fd, NEW p \in data_block(b), o = Outcome(s, p.be, "none")
      PROVE  Fed
  BY <1>4, <1>5 DEF Outcome
<1>6. ASSUME response_ok(s.dresp), s.fd, NEW p \in data_block(b),
             o = Outcome([s EXCEPT !.file = @ + 1], p.be, "none")
      PROVE  Fed
  <2> DEFINE u == [s EXCEPT !.file = @ + 1]
  <2>1. s.file + 1 \in Nat
    BY DEF Session
  <2>2. u \in Session /\ u.n = s.n /\ u.dresp = s.dresp /\ u.fd = s.fd /\ u.file = s.file + 1
    BY <2>1 DEF Session
  <2>3. o.sess = u /\ o.be = p.be
    BY <1>6 DEF Outcome
  <2> HIDE DEF u
  <2> QED BY <1>4, <1>6, <2>2, <2>3
<1>7. ASSUME NEW p \in data_block(b), o = ResetAnd([s EXCEPT !.dresp = "temp"], p.be, "none")
      PROVE  Shut
  <2> HIDE DEF Shut
  <2> QED BY <1>2, <1>4, <1>7
<1>8. \/ ~ response_ok(s.dresp) /\ o = Outcome(s, b, "none")
      \/ ~ response_ok(resp) /\ o = ResetAnd([s EXCEPT !.dresp = resp], b, "none")
      \/ \E p \in data_block(b) :
           \/ response_ok(s.dresp) /\ ~ s.fd /\ o = Outcome(s, p.be, "none")
           \/ response_ok(s.dresp) /\ s.fd /\ o = Outcome([s EXCEPT !.file = @ + 1], p.be, "none")
           \/ o = ResetAnd([s EXCEPT !.dresp = "temp"], p.be, "none")
  BY DEF handle_data_bytes
<1> HIDE DEF resp, Shut, Fed
<1>9. \/ ~ response_ok(s.dresp) /\ o = Outcome(s, b, "none")
      \/ Shut
      \/ Fed
  BY <1>3, <1>5, <1>6, <1>7, <1>8
<1>10. CASE Shut
  BY <1>10 DEF Shut
<1>11. CASE Fed
  BY <1>11 DEF Fed
<1> QED BY <1>1, <1>9, <1>10, <1>11

(***************************************************************************)
(* handle_message_end refuses the message with no pipe open and nothing    *)
(* written, or writes its envelope, to a process that has, or is to have,  *)
(* what was handed on.                                                     *)
(***************************************************************************)
LEMMA MessageEndFeeds ==
  ASSUME NEW s \in Session, NEW b \in QmailState, NEW answers,
         NEW n \in Message,
         IF response_ok(s.dresp) THEN b.epipe = n ELSE b.epipe = 0 /\ b.mpipe = 0,
         NEW o \in handle_message_end(s, b, answers)
  PROVE  /\ o.sess \in Session /\ o.sess.n = s.n /\ o.be \in QmailState
         /\ \/ /\ o.resp # "busy" /\ ~ response_ok(o.resp)
               /\ o.be.epipe = 0 /\ o.be.mpipe = 0 /\ SparesAll(b.qq, o.be.qq)
            \/ /\ o.resp = "busy" /\ response_ok(s.dresp)
               /\ EnvelopeReady(b, o.be, n, s.fd, s.file)
<1> DEFINE resp == MODULE_CALL("none", answers)
           Refused == /\ o.sess \in Session /\ o.sess.n = s.n /\ o.be \in QmailState
                      /\ o.resp # "busy" /\ ~ response_ok(o.resp)
                      /\ o.be.epipe = 0 /\ o.be.mpipe = 0 /\ SparesAll(b.qq, o.be.qq)
<1>1. ASSUME ~ response_ok(s.dresp), o = Outcome(s, b, s.dresp)
      PROVE  Refused
  BY <1>1, SparesNothing DEF Outcome, response_ok
<1>2. ASSUME NEW c \in QmailState, SparesAll(b.qq, c.qq), NEW r, ~ response_ok(r),
             o = ResetAnd(s, c, r)
      PROVE  Refused
  <2>1. /\ o.sess \in Session /\ o.sess.n = s.n
        /\ o.be \in QmailState /\ o.be.epipe = 0 /\ o.be.mpipe = 0 /\ SparesAll(c.qq, o.be.qq)
    BY <1>2, ResetCloses
  <2>2. o.resp = r /\ r # "busy"
    BY <1>2 DEF ResetAnd, Outcome, response_ok
  <2>3. SparesAll(b.qq, o.be.qq)
    BY <1>2, <2>1, SparesTransitive
  <2> QED BY <1>2, <2>1, <2>2, <2>3
<1> HIDE DEF Refused
<1>3. ASSUME ~ response_ok(resp), o = ResetAnd(s, b, resp)
      PROVE  Refused
  <2> HIDE DEF resp
  <2> QED BY <1>2, <1>3, SparesNothing
<1>4. ASSUME response_ok(s.dresp), NEW p \in message_end(b, s.fd, s.file),
             o = MessageEnded(s, p.be, p.resp), p.resp = "temp"
      PROVE  Refused
  <2>1. b.epipe \in Message /\ s.fd \in BOOLEAN /\ s.file \in Nat
    BY <1>4 DEF Session
  <2>2. p.be \in QmailState /\ SparesAll(b.qq, p.be.qq)
    BY <1>4, <2>1, MessageEndWrites
  <2>3. o = ResetAnd(s, p.be, "temp") /\ ~ response_ok("temp")
    BY <1>4 DEF MessageEnded, response_ok
  <2> QED BY <1>2, <2>2, <2>3
<1>5. ASSUME response_ok(s.dresp), NEW p \in message_end(b, s.fd, s.file),
             o = MessageEnded(s, p.be, p.resp), p.resp # "temp"
      PROVE  /\ o.sess \in Session /\ o.sess.n = s.n /\ o.be \in QmailState
             /\ o.resp = "busy" /\ response_ok(s.dresp)
             /\ EnvelopeReady(b, o.be, n, s.fd, s.file)
  <2>1. b.epipe = n /\ b.epipe \in Message /\ s.fd \in BOOLEAN /\ s.file \in Nat
    BY <1>5 DEF Session
  <2>2. /\ p.be \in QmailState /\ p.resp = "busy"
        /\ EnvelopeReady(b, p.be, b.epipe, s.fd, s.file)
    BY <1>5, <2>1, MessageEndWrites
  <2>3. o.sess = s /\ o.be = p.be /\ o.resp = "busy"
    BY <1>5, <2>2 DEF MessageEnded, Outcome
  <2> QED BY <1>5, <2>1, <2>2, <2>3
<1>6. \/ ~ response_ok(s.dresp) /\ o = Outcome(s, b, s.dresp)
      \/ ~ response_ok(resp) /\ o = ResetAnd(s, b, resp)
      \/ response_ok(s.dresp) /\ \E p \in message_end(b, s.fd, s.file) :
                                  o = MessageEnded(s, p.be, p.resp)
  BY DEF handle_message_end
<1> HIDE DEF resp
<1>7. \/ Refused
      \/ response_ok(s.dresp) /\ \E p \in message_end(b, s.fd, s.file) :
                                  o = MessageEnded(s, p.be, p.resp) /\ p.resp # "temp"
  BY <1>1, <1>3, <1>4, <1>6
<1>8. CASE Refused
  BY <1>8 DEF Refused
<1> QED BY <1>5, <1>7, <1>8


-----------------------------------------------------------------------------
(* Every step preserves the second invariant, and the session's own steps  *)
(* queue nothing                                                           *)

Told(x, v)       == [x EXCEPT !.verdict = v]
Settled(m, n, v) == [m EXCEPT ![n] = Told(m[n], v)]

\* Giving a verdict changes nothing else.
LEMMA SettledOne ==
  ASSUME NEW m \in [Number -> Mail], NEW n \in Number, NEW v \in Verdict
  PROVE  LET m2 == Settled(m, n, v)
         IN  /\ m2 \in [Number -> Mail]
             /\ m2[n] = Told(m[n], v)
             /\ m2[n].verdict = v /\ m2[n].blocks = m[n].blocks
             /\ \A k \in Number : k # n => m2[k] = m[k]
<1> DEFINE m2 == Settled(m, n, v)
           x  == Told(m[n], v)
<1>1. x \in Mail /\ x.verdict = v /\ x.blocks = m[n].blocks
  BY DEF Mail, Told
<1>2. m2 = [m EXCEPT ![n] = x]
  BY DEF Settled
<1> HIDE DEF x, m2
<1>3. /\ m2 \in [Number -> Mail] /\ m2[n] = x
      /\ \A k \in Number : k # n => m2[k] = m[k]
  BY <1>1, <1>2
<1> QED BY <1>1, <1>3 DEF m2, x

\* What the second invariant says of any state.
LEMMA DeliveryHolds ==
  ASSUME Delivery
  PROVE  /\ sess \in Session /\ sess.n \in 0 .. MaxMessages /\ sess.n \in Nat
         /\ be \in QmailState /\ be.qq \in [Message -> QmailQueue]
         /\ Number = Message /\ mail \in [Number -> Mail]
         /\ pc \in {"command", "body", "block", "ending", "closed"}
         /\ ProcessesHold(be.qq, mail) /\ NoneAfter(sess.n, be.qq)
  BY Parameters DEF Delivery, TypeOK, Delivers, Session, QmailState

\* ... and while a message is under way.
LEMMA BodyUnderWay ==
  ASSUME Delivery, pc \in {"body", "block", "ending"}
  PROVE  /\ sess.n \in Message /\ mail[sess.n].verdict = "open"
         /\ ProcessHolds(be.qq[sess.n], mail[sess.n])
         /\ pc \in {"body", "block"} => BodyIsFed(pc, sess, be, mail)
         /\ pc = "ending" => EndIsOwn(sess, be, mail)
  BY DEF Delivery, Delivers, BodyIsFed, EndIsOwn, ProcessesHold

\* With the pipes closed and the processes spared, a command, or nothing, may follow.
LEMMA ClosedDelivers ==
  ASSUME Delivery, NEW s, s.n = sess.n, NEW b, b.epipe = 0, b.mpipe = 0,
         SparesAll(be.qq, b.qq), NEW p \in {"command", "closed"}
  PROVE  Delivers(p, s, b, mail) /\ QueuesNothing(be.qq, b.qq)
<1>1. ProcessesHold(b.qq, mail) /\ QueuesNothing(be.qq, b.qq)
  BY DeliveryHolds, NoneChanges
<1>2. NoneAfter(sess.n, b.qq)
  <2>1. SparesBut(be.qq, b.qq, sess.n) /\ sess.n \in Nat /\ sess.n <= sess.n
        /\ NoneAfter(sess.n, be.qq)
    BY DeliveryHolds DEF SparesAll, SparesBut
  <2> QED BY <2>1, NoneAfterKept
<1> QED BY <1>1, <1>2 DEF Delivers

\* What the client is told of the message in hand, with the pipes closed.
LEMMA VerdictDelivers ==
  ASSUME Delivery, pc \in {"body", "block", "ending"},
         NEW s, s.n = sess.n, NEW b, b.epipe = 0, b.mpipe = 0,
         NEW v \in Verdict, NEW p \in {"command", "closed"},
         SparesBut(be.qq, b.qq, sess.n), b.qq[sess.n].queued = be.qq[sess.n].queued,
         ProcessHolds(b.qq[sess.n], Told(mail[sess.n], v))
  PROVE  /\ Settled(mail, sess.n, v) \in [Number -> Mail]
         /\ Delivers(p, s, b, Settled(mail, sess.n, v))
         /\ QueuesNothing(be.qq, b.qq)
<1>1. PICK n, m2 : n = sess.n /\ m2 = Settled(mail, n, v)
  OBVIOUS
<1>2. /\ n \in Message /\ n \in Nat /\ n <= n /\ Number = Message /\ mail \in [Number -> Mail]
      /\ ProcessesHold(be.qq, mail) /\ NoneAfter(n, be.qq)
  BY <1>1, DeliveryHolds, BodyUnderWay
<1>3. /\ m2 \in [Number -> Mail] /\ m2[n] = Told(mail[n], v)
      /\ \A k \in Message : k # n => m2[k] = mail[k]
  BY <1>1, <1>2, SettledOne
<1>4. /\ ProcessHolds(b.qq[n], m2[n])
      /\ SparesBut(be.qq, b.qq, n) /\ b.qq[n].queued = be.qq[n].queued
  BY <1>1, <1>3
<1>5. ProcessesHold(b.qq, m2) /\ QueuesNothing(be.qq, b.qq)
  BY <1>2, <1>3, <1>4, OneChanges, OneQueues
<1>6. NoneAfter(n, b.qq)
  BY <1>2, <1>4, NoneAfterKept
<1> QED BY <1>1, <1>3, <1>5, <1>6 DEF Delivers

\* HELO, RSET.
LEMMA ResetDelivers ==
  ASSUME Delivery, HELO \/ RSET
  PROVE  Delivery' /\ QueuesNothing(be.qq, be'.qq)
<1>1. PICK answers \in Chains : Becomes(handle_reset(sess, be, answers))
  BY DEF HELO, RSET
<1> DEFINE o == handle_reset(sess, be, answers)
<1>2. /\ o.sess \in Session /\ o.sess.n = sess.n
      /\ o.be \in QmailState /\ o.be.epipe = 0 /\ o.be.mpipe = 0 /\ SparesAll(be.qq, o.be.qq)
  BY DeliveryHolds, ResetCloses
<1>3. sess' = o.sess /\ be' = o.be
  BY <1>1 DEF Becomes
<1> HIDE DEF o
<1>4. /\ pc' = "command" /\ offer' = NoOffer /\ mail' = mail
      /\ \/ UNCHANGED <<saw_mail, saw_rcpt, rcpts>>
         \/ saw_mail' = FALSE /\ saw_rcpt' = FALSE /\ rcpts' = 0
  BY DEF HELO, RSET
<1>5. Delivers("command", sess', be', mail) /\ QueuesNothing(be.qq, be'.qq)
  BY <1>2, <1>3, ClosedDelivers
<1>6. saw_mail' \in BOOLEAN /\ saw_rcpt' \in BOOLEAN /\ rcpts' \in Nat
  <2>1. saw_mail \in BOOLEAN /\ saw_rcpt \in BOOLEAN /\ rcpts \in Nat
    BY DEF Delivery, TypeOK
  <2>2. CASE HELO
    BY <2>1, <2>2 DEF HELO
  <2>3. CASE RSET
    BY <2>3 DEF RSET
  <2> QED BY <2>2, <2>3
<1>7. TypeOK'
  BY <1>2, <1>3, <1>4, <1>6, OfferTypes DEF Delivery, TypeOK
<1> QED BY <1>4, <1>5, <1>7 DEF Delivery

\* MAIL.
LEMMA MailDelivers ==
  ASSUME Delivery, NEW a \in Address, MAIL(a)
  PROVE  Delivery' /\ QueuesNothing(be.qq, be'.qq)
<1> DEFINE r(resets) == handle_reset(sess, be, resets)
<1>1. PICK resets \in Chains, answers \in Chains :
        \E o \in handle_sender(r(resets).sess, r(resets).be, a, answers) :
          /\ Becomes(o)
          /\ saw_mail' = response_ok(o.resp)
          /\ offer' = IF response_ok(o.resp)
                      THEN [from |-> <<a>>, to |-> <<>>] ELSE NoOffer
  BY DEF MAIL
<1> DEFINE s == r(resets).sess
           b == r(resets).be
<1>2. /\ s \in Session /\ s.n = sess.n
      /\ b \in QmailState /\ b.epipe = 0 /\ b.mpipe = 0 /\ SparesAll(be.qq, b.qq)
  BY DeliveryHolds, ResetCloses
<1>3. PICK o \in handle_sender(s, b, a, answers) :
          /\ Becomes(o)
          /\ saw_mail' = response_ok(o.resp)
          /\ offer' = IF response_ok(o.resp)
                      THEN [from |-> <<a>>, to |-> <<>>] ELSE NoOffer
  BY <1>1
<1> HIDE DEF s, b
<1>4. o.sess = s /\ Aside(b, o.be)
  BY <1>2, AddressHandled
<1>5. /\ sess' = s /\ be' \in QmailState /\ be'.qq = b.qq
      /\ be'.epipe = 0 /\ be'.mpipe = 0
  BY <1>2, <1>3, <1>4 DEF Aside, Becomes
<1>6. pc' = "command" /\ saw_rcpt' = FALSE /\ rcpts' = 0 /\ mail' = mail
  BY DEF MAIL
<1>7. Delivers("command", sess', be', mail) /\ QueuesNothing(be.qq, be'.qq)
  BY <1>2, <1>5, ClosedDelivers
<1>8. saw_mail' \in BOOLEAN /\ offer' \in Offer
  BY <1>3, OfferTypes DEF response_ok
<1>9. TypeOK'
  BY <1>2, <1>5, <1>6, <1>8 DEF Delivery, TypeOK
<1> QED BY <1>6, <1>7, <1>9 DEF Delivery

\* RCPT.
LEMMA RcptDelivers ==
  ASSUME Delivery, NEW a \in Address, RCPT(a)
  PROVE  Delivery' /\ QueuesNothing(be.qq, be'.qq)
<1>0. PICK answers \in Chains : \E o \in handle_recipient(sess, be, a, answers) :
        /\ Becomes(o)
        /\ saw_rcpt' = (saw_rcpt \/ response_ok(o.resp))
        /\ offer' = IF response_ok(o.resp) /\ offer # NoOffer
                    THEN [offer EXCEPT !.to = Append(@, a)] ELSE offer
  BY DEF RCPT
<1>1. PICK o \in handle_recipient(sess, be, a, answers) :
        /\ Becomes(o)
        /\ saw_rcpt' = (saw_rcpt \/ response_ok(o.resp))
        /\ offer' = IF response_ok(o.resp) /\ offer # NoOffer
                    THEN [offer EXCEPT !.to = Append(@, a)] ELSE offer
  BY <1>0
<1>2. o.sess = sess /\ Aside(be, o.be)
  BY DeliveryHolds, AddressHandled
<1>3. /\ pc = "command" /\ pc' = "command" /\ rcpts' = rcpts + 1
      /\ UNCHANGED <<saw_mail, mail>>
  BY DEF RCPT
<1>4. /\ sess' = sess /\ be' \in QmailState /\ be'.qq = be.qq
      /\ be'.epipe = be.epipe /\ be'.mpipe = be.mpipe
  BY <1>1, <1>2 DEF Aside, Becomes
<1>5. be.epipe = 0 /\ be.mpipe = 0
  BY <1>3 DEF Delivery, Delivers
<1>6. Delivers("command", sess', be', mail) /\ QueuesNothing(be.qq, be'.qq)
  <2>1. SparesAll(be.qq, be'.qq)
    BY <1>4, SparesNothing
  <2> QED BY <1>4, <1>5, <2>1, ClosedDelivers
<1>7. saw_rcpt' \in BOOLEAN /\ offer' \in Offer /\ rcpts' \in Nat
  <2>1. saw_rcpt \in BOOLEAN /\ offer \in Offer /\ rcpts \in Nat
    BY DEF Delivery, TypeOK
  <2> QED BY <1>1, <1>3, <2>1, OfferTypes
<1>8. TypeOK'
  BY <1>3, <1>4, <1>7 DEF Delivery, TypeOK
<1> QED BY <1>3, <1>6, <1>8 DEF Delivery

\* The end of the session, which may cut a message short.
LEMMA ExitDelivers ==
  ASSUME Delivery, ResetFails \/ Leave \/ Alarm
  PROVE  Delivery' /\ QueuesNothing(be.qq, be'.qq)
<1>1. PICK o : /\ o.sess \in Session /\ o.sess.n = sess.n
               /\ o.be \in QmailState /\ SparesAll(be.qq, o.be.qq)
               /\ Exits(o)
  <2>1. CASE ResetFails
    <3>1. PICK answers \in Chains : Exits(handle_reset(sess, be, answers))
      BY <2>1 DEF ResetFails
    <3> QED BY <3>1, DeliveryHolds, ResetCloses
  <2>2. CASE Leave \/ Alarm
    <3> DEFINE o == Outcome(sess, be, "none")
    <3>1. o.sess = sess /\ o.be = be /\ Exits(o)
      BY <2>2 DEF Leave, Alarm, Outcome
    <3> QED BY <3>1, DeliveryHolds, SparesNothing
  <2> QED BY <2>1, <2>2
<1> DEFINE e == exitfn(o.sess, o.be)
<1>2. /\ e.sess \in Session /\ e.sess.n = sess.n
      /\ e.be \in QmailState /\ e.be.epipe = 0 /\ e.be.mpipe = 0 /\ SparesAll(be.qq, e.be.qq)
  BY <1>1, ResetCloses, SparesTransitive DEF exitfn
<1>3. sess' = e.sess /\ be' = e.be /\ pc' = "closed"
  BY <1>1 DEF Exits, Becomes
<1> HIDE DEF e
<1>4. /\ UNCHANGED <<saw_mail, saw_rcpt, rcpts, offer>>
      /\ (mail' = mail /\ pc = "command") \/ (mail' = MailCut /\ pc # "closed")
  BY DEF ResetFails, Leave, Alarm
<1>5. /\ mail' \in [Number -> Mail]
      /\ Delivers("closed", sess', be', mail') /\ QueuesNothing(be.qq, be'.qq)
  <2>1. CASE mail' = mail
    BY <1>2, <1>3, <2>1, DeliveryHolds, ClosedDelivers
  <2>2. CASE mail' # mail
    <3> DEFINE v == IF pc = "ending" THEN "unknown" ELSE "cut"
    <3>1. pc \in {"body", "block", "ending"} /\ mail' = Settled(mail, sess.n, v)
      BY <1>4, <2>2, DeliveryHolds DEF MailCut, Settled, Told
    <3>2. v \in Verdict
      BY DEF Verdict
    <3>3. sess.n \in Message /\ Spares(be.qq[sess.n], be'.qq[sess.n])
          /\ SparesBut(be.qq, be'.qq, sess.n)
      BY <1>2, <1>3, <3>1, BodyUnderWay DEF SparesAll, SparesBut
    <3>4. be'.qq[sess.n].queued = be.qq[sess.n].queued
      BY <3>3 DEF Spares
    <3>5. ProcessHolds(be'.qq[sess.n], Told(mail[sess.n], v))
      <4> DEFINE p == be.qq[sess.n]
                 q == be'.qq[sess.n]
                 x == Told(mail[sess.n], v)
      <4>0. x.verdict = v /\ x.blocks = mail[sess.n].blocks
        BY <3>2, <3>3, DeliveryHolds DEF Told, Mail
      <4> HIDE DEF x
      <4> SUFFICES ProcessHolds(q, x)
        BY DEF x
      <4>1. Spares(p, q) /\ ProcessHolds(p, mail[sess.n])
        BY <3>1, <3>3, BodyUnderWay
      <4>2. CASE pc = "ending"
        <5>1. v = "unknown"
          BY <4>2
        <5>2. Sound(q) /\ \A n : Whole(p, n) => Whole(q, n)
          BY <4>1, SparesProcess DEF ProcessHolds
        <5> QED BY <4>0, <4>1, <5>1, <5>2 DEF ProcessHolds
      <4>3. CASE pc # "ending"
        <5>1. p.env = <<>> /\ Sound(p)
          BY <3>1, <4>1, <4>3, BodyUnderWay DEF BodyIsFed, ProcessHolds
        <5>2. Unwritten(p, q)
          BY <4>1, SparedIsUnwritten
        <5>3. x.verdict # "ack"
          BY <4>0
        <5> QED BY <5>1, <5>2, <5>3, UnwrittenHolds
      <4> QED BY <4>2, <4>3
    <3> HIDE DEF v
    <3> QED BY <1>2, <1>3, <3>1, <3>2, <3>3, <3>4, <3>5, VerdictDelivers
  <2> QED BY <2>1, <2>2
<1>6. TypeOK'
  BY <1>2, <1>3, <1>4, <1>5 DEF Delivery, TypeOK
<1> QED BY <1>3, <1>5, <1>6 DEF Delivery


\* A step within the message in hand, or that starts it: its process holds what it
\* is to hold, and no other is touched.
LEMMA StepDelivers ==
  ASSUME Delivery, NEW s, NEW n \in Message, n = s.n, sess.n <= n,
         NEW b, NEW m2, NEW p,
         SparesBut(be.qq, b.qq, n), b.qq[n].queued = be.qq[n].queued,
         ProcessHolds(b.qq[n], m2[n]), \A k \in Message : k # n => m2[k] = mail[k],
         p = "command" => b.epipe = 0 /\ b.mpipe = 0,
         p \in {"body", "block"} => BodyIsFed(p, s, b, m2),
         p = "ending" => EndIsOwn(s, b, m2)
  PROVE  Delivers(p, s, b, m2) /\ QueuesNothing(be.qq, b.qq)
<1>1. /\ ProcessesHold(be.qq, mail) /\ NoneAfter(sess.n, be.qq)
      /\ sess.n \in Nat /\ n \in Nat
  BY DeliveryHolds DEF Message
<1>2. ProcessesHold(b.qq, m2) /\ QueuesNothing(be.qq, b.qq)
  BY <1>1, OneChanges, OneQueues
<1>3. NoneAfter(n, b.qq)
  BY <1>1, NoneAfterKept
<1> QED BY <1>2, <1>3 DEF Delivers

\* DATA: the next message's process and pipes.
LEMMA DataDelivers ==
  ASSUME Delivery, DATA
  PROVE  Delivery' /\ QueuesNothing(be.qq, be'.qq)
<1>0. PICK answers \in Chains : \E o \in handle_data_start(sess, be, answers) :
        /\ Becomes(o)
        /\ pc' = IF response_ok(o.resp) THEN "body" ELSE "command"
        /\ mail' = [mail EXCEPT ![o.sess.n] =
             [offer |-> offer, blocks |-> 0,
              verdict |-> IF response_ok(o.resp) THEN "open" ELSE "nak"]]
        /\ rcpts' = 0
  BY DEF DATA
<1>1. PICK o \in handle_data_start(sess, be, answers) :
        /\ Becomes(o)
        /\ pc' = IF response_ok(o.resp) THEN "body" ELSE "command"
        /\ mail' = [mail EXCEPT ![o.sess.n] =
             [offer |-> offer, blocks |-> 0,
              verdict |-> IF response_ok(o.resp) THEN "open" ELSE "nak"]]
        /\ rcpts' = 0
  BY <1>0
<1> DEFINE n == sess.n + 1
           x == [offer |-> offer, blocks |-> 0,
                 verdict |-> IF response_ok(o.resp) THEN "open" ELSE "nak"]
<1>2. pc = "command" /\ sess.n < MaxMessages /\ UNCHANGED <<saw_mail, saw_rcpt, offer>>
  BY DEF DATA
<1>3. /\ n \in Message /\ sess.n \in Nat /\ Number = Message /\ mail \in [Number -> Mail]
      /\ be.epipe = 0 /\ be.mpipe = 0 /\ be \in QmailState /\ sess \in Session
  BY <1>2, DeliveryHolds DEF Message, Delivery, Delivers
<1>4. /\ o.sess \in Session /\ o.sess.n = n /\ o.be \in QmailState
      /\ SparesBut(be.qq, o.be.qq, n) /\ Unwritten(be.qq[n], o.be.qq[n])
      /\ IF ~ response_ok(o.resp) THEN o.be.epipe = 0 /\ o.be.mpipe = 0
         ELSE /\ response_ok(o.sess.dresp) /\ o.be.epipe = n
              /\ IF o.sess.fd THEN o.be.mpipe = 0 /\ o.sess.file = 0
                 ELSE o.be.mpipe = n /\ o.be.pid = n /\ o.be.qq[n].msg = 0
  BY <1>2, <1>3, DataStartOpens
<1>5. mail' = [mail EXCEPT ![n] = x] /\ sess' = o.sess /\ be' = o.be
  BY <1>1, <1>4 DEF Becomes
<1>6. /\ x \in Mail /\ x.blocks = 0
      /\ x.verdict = IF response_ok(o.resp) THEN "open" ELSE "nak"
  BY DEF Delivery, TypeOK, Mail, Verdict
<1>7. be.qq[n].env = <<>> /\ Sound(be.qq[n])
  <2>1. n > sess.n
    BY <1>3
  <2> HIDE DEF n
  <2> QED BY <1>3, <2>1, DeliveryHolds DEF NoneAfter, ProcessesHold, ProcessHolds
<1> HIDE DEF n, x
<1>8. /\ mail' \in [Number -> Mail] /\ mail'[n] = x
      /\ \A k \in Message : k # n => mail'[k] = mail[k]
  BY <1>3, <1>5, <1>6
<1>9. ProcessHolds(be'.qq[n], x) /\ be'.qq[n].env = <<>>
      /\ be'.qq[n].queued = be.qq[n].queued
  <2>1. x.verdict # "ack"
    BY <1>6
  <2> QED BY <1>4, <1>5, <1>7, <2>1, UnwrittenHolds DEF Unwritten
<1>10. pc' = "body" => BodyIsFed("body", sess', be', mail')
  <2> SUFFICES ASSUME response_ok(o.resp)
               PROVE  BodyIsFed("body", sess', be', mail')
    BY <1>1
  <2>1. /\ response_ok(sess'.dresp) /\ be'.epipe = n /\ sess'.n = n
        /\ IF sess'.fd THEN be'.mpipe = 0 /\ sess'.file = 0
           ELSE be'.mpipe = n /\ be'.pid = n /\ be'.qq[n].msg = 0
    BY <1>4, <1>5
  <2>2. mail'[n].verdict = "open" /\ mail'[n].blocks = 0
    BY <1>6, <1>8
  <2>3. Handed("body", sess', mail') = 0
    BY <2>1, <2>2 DEF Handed
  <2> QED BY <1>3, <1>9, <2>1, <2>2, <2>3 DEF BodyIsFed
<1>11. pc' = "command" => be'.epipe = 0 /\ be'.mpipe = 0
  BY <1>1, <1>4, <1>5
<1>12. Delivers(pc', sess', be', mail') /\ QueuesNothing(be.qq, be'.qq)
  <2>1. pc' \in {"body", "command"}
    BY <1>1
  <2>2. sess.n <= n
    BY <1>3 DEF n
  <2>3. SparesBut(be.qq, be'.qq, n) /\ ProcessHolds(be'.qq[n], mail'[n]) /\ n = sess'.n
    BY <1>4, <1>5, <1>8, <1>9
  <2>4. CASE pc' = "body"
    <3>1. BodyIsFed("body", sess', be', mail')
      BY <1>10, <2>4
    <3> PICK s, b, m : s = sess' /\ b = be' /\ m = mail'
      OBVIOUS
    <3>2. /\ n \in Message /\ n = s.n /\ sess.n <= n
          /\ SparesBut(be.qq, b.qq, n) /\ b.qq[n].queued = be.qq[n].queued
          /\ ProcessHolds(b.qq[n], m[n]) /\ BodyIsFed("body", s, b, m)
          /\ \A k \in Message : k # n => m[k] = mail[k]
      BY <1>3, <1>8, <1>9, <2>2, <2>3, <3>1
    <3>3. Delivers("body", s, b, m) /\ QueuesNothing(be.qq, b.qq)
      BY <3>2, StepDelivers
    <3> QED BY <2>4, <3>3
  <2>5. CASE pc' = "command"
    <3>1. be'.epipe = 0 /\ be'.mpipe = 0
      BY <1>11, <2>5
    <3> PICK s, b, m : s = sess' /\ b = be' /\ m = mail'
      OBVIOUS
    <3>2. /\ n \in Message /\ n = s.n /\ sess.n <= n
          /\ SparesBut(be.qq, b.qq, n) /\ b.qq[n].queued = be.qq[n].queued
          /\ ProcessHolds(b.qq[n], m[n]) /\ b.epipe = 0 /\ b.mpipe = 0
          /\ \A k \in Message : k # n => m[k] = mail[k]
      BY <1>3, <1>8, <1>9, <2>2, <2>3, <3>1
    <3>3. Delivers("command", s, b, m) /\ QueuesNothing(be.qq, b.qq)
      BY <3>2, StepDelivers, SMTT(30)
    <3> QED BY <2>5, <3>3
  <2> QED BY <2>1, <2>4, <2>5
<1>13. TypeOK'
  BY <1>1, <1>2, <1>4, <1>5, <1>8 DEF Delivery, TypeOK
<1> QED BY <1>12, <1>13 DEF Delivery

\* A block of the message arrives.
LEMMA BlockArrivesDelivers ==
  ASSUME Delivery, BlockArrives
  PROVE  Delivery' /\ QueuesNothing(be.qq, be'.qq)
<1> DEFINE n == sess.n
           x == [mail[n] EXCEPT !.blocks = @ + 1]
<1>1. /\ pc = "body" /\ pc' = "block"
      /\ mail' = [mail EXCEPT ![n].blocks = @ + 1]
      /\ UNCHANGED <<saw_mail, saw_rcpt, sess, be, rcpts, offer>>
  BY DEF BlockArrives
<1>2. /\ n \in Message /\ n \in Nat /\ Number = Message /\ mail \in [Number -> Mail]
      /\ BodyIsFed("body", sess, be, mail) /\ ProcessHolds(be.qq[n], mail[n])
  BY <1>1, DeliveryHolds, BodyUnderWay
<1>3. mail[n] \in Mail /\ mail[n].blocks \in Nat /\ mail[n].verdict = "open"
  BY <1>2 DEF Mail, BodyIsFed
<1>4. x \in Mail /\ x.verdict = "open" /\ x.blocks = mail[n].blocks + 1
  BY <1>3 DEF Mail
<1>5. mail' = [mail EXCEPT ![n] = x]
  BY <1>1, <1>2
<1> HIDE DEF x
<1>6. /\ mail' \in [Number -> Mail] /\ mail'[n] = x
      /\ \A k \in Message : k # n => mail'[k] = mail[k]
  BY <1>2, <1>4, <1>5
<1>7. ProcessHolds(be.qq[n], x)
  <2>1. be.qq[n].env = <<>> /\ Sound(be.qq[n]) /\ x.verdict # "ack"
    BY <1>2, <1>4 DEF BodyIsFed, ProcessHolds
  <2> QED BY <2>1, UnwrittenHolds DEF Unwritten
<1>8. BodyIsFed("block", sess, be, mail')
  <2>1. Handed("body", sess, mail) = mail[n].blocks
        /\ Handed("block", sess, mail') = mail[n].blocks
    BY <1>3, <1>4, <1>6 DEF Handed
  <2>2. mail'[n].blocks > 0 /\ mail'[n].verdict = "open"
    BY <1>3, <1>4, <1>6
  <2> QED BY <1>2, <2>1, <2>2 DEF BodyIsFed
<1>9. Delivers("block", sess, be, mail') /\ QueuesNothing(be.qq, be.qq)
  <2>1. SparesBut(be.qq, be.qq, n) /\ sess.n <= n
    BY <1>2 DEF SparesBut, Spares
  <2>2. ProcessHolds(be.qq[n], mail'[n])
    BY <1>6, <1>7
  <2> QED BY <1>2, <1>6, <1>8, <2>1, <2>2, StepDelivers
<1>10. TypeOK'
  BY <1>1, <1>6 DEF Delivery, TypeOK
<1> QED BY <1>1, <1>9, <1>10 DEF Delivery

\* It is handed on.
LEMMA BlockHandledDelivers ==
  ASSUME Delivery, BlockHandled
  PROVE  Delivery' /\ QueuesNothing(be.qq, be'.qq)
<1> DEFINE n == sess.n
<1>0. PICK answers \in Chains : \E o \in handle_data_bytes(sess, be, answers) : Becomes(o)
  BY DEF BlockHandled
<1>1. PICK o \in handle_data_bytes(sess, be, answers) : Becomes(o)
  BY <1>0
<1>2. pc = "block" /\ pc' = "body" /\ UNCHANGED <<saw_mail, saw_rcpt, rcpts, offer, mail>>
  BY DEF BlockHandled
<1>3. /\ n \in Message /\ n \in Nat /\ mail \in [Message -> Mail]
      /\ be \in QmailState /\ sess \in Session
      /\ BodyIsFed("block", sess, be, mail) /\ ProcessHolds(be.qq[n], mail[n])
  BY <1>2, DeliveryHolds, BodyUnderWay
<1>4. be.mpipe \in {0, n}
  BY <1>3 DEF BodyIsFed
<1>5. /\ o.sess \in Session /\ o.sess.n = n /\ o.be \in QmailState
      /\ SparesBut(be.qq, o.be.qq, n) /\ Unwritten(be.qq[n], o.be.qq[n])
      /\ \/ ~ response_ok(sess.dresp) /\ o.sess = sess /\ o.be = be
         \/ ~ response_ok(o.sess.dresp) /\ o.be.epipe = 0 /\ o.be.mpipe = 0
         \/ /\ response_ok(sess.dresp)
            /\ o.sess.dresp = sess.dresp /\ o.sess.fd = sess.fd
            /\ o.sess.file = IF sess.fd THEN sess.file + 1 ELSE sess.file
            /\ o.be.epipe = be.epipe /\ o.be.mpipe = be.mpipe /\ o.be.pid = be.pid
            /\ be.mpipe = n /\ "block" \notin QmailFaults =>
                 o.be.qq[n].msg = be.qq[n].msg + 1
  BY <1>3, <1>4, Parameters, DataBytesFeeds
<1>6. sess' = o.sess /\ be' = o.be
  BY <1>1 DEF Becomes
<1>7. mail[n].verdict = "open" /\ mail[n].blocks \in Nat /\ mail[n].blocks > 0
  BY <1>3 DEF BodyIsFed, Mail
<1>8. /\ be.qq[n].env = <<>> /\ Sound(be.qq[n])
      /\ o.be.qq[n].env = <<>> /\ o.be.qq[n].queued = be.qq[n].queued
      /\ ProcessHolds(o.be.qq[n], mail[n])
  <2>1. be.qq[n].env = <<>> /\ Sound(be.qq[n]) /\ mail[n].verdict # "ack"
    BY <1>3, <1>7 DEF BodyIsFed, ProcessHolds
  <2> QED BY <1>5, <2>1, UnwrittenHolds DEF Unwritten
<1>9. BodyIsFed("body", o.sess, o.be, mail)
  <2>1. /\ Handed("block", sess, mail) = mail[n].blocks - 1
        /\ Handed("body", o.sess, mail) = mail[n].blocks
    BY <1>5 DEF Handed
  <2>2. CASE ~ response_ok(sess.dresp) /\ o.sess = sess /\ o.be = be
    BY <1>3, <2>2 DEF BodyIsFed
  <2>3. CASE ~ response_ok(o.sess.dresp) /\ o.be.epipe = 0 /\ o.be.mpipe = 0
    BY <1>3, <1>5, <1>7, <1>8, <2>3 DEF BodyIsFed
  <2>4. CASE /\ response_ok(sess.dresp)
             /\ o.sess.dresp = sess.dresp /\ o.sess.fd = sess.fd
             /\ o.sess.file = IF sess.fd THEN sess.file + 1 ELSE sess.file
             /\ o.be.epipe = be.epipe /\ o.be.mpipe = be.mpipe /\ o.be.pid = be.pid
             /\ be.mpipe = n /\ "block" \notin QmailFaults =>
                  o.be.qq[n].msg = be.qq[n].msg + 1
    <3>1. /\ be.epipe = n
          /\ IF sess.fd THEN be.mpipe = 0 /\ sess.file = mail[n].blocks - 1
             ELSE /\ be.mpipe = n /\ be.pid = n
                  /\ "block" \notin QmailFaults => be.qq[n].msg = mail[n].blocks - 1
      BY <1>3, <2>1, <2>4 DEF BodyIsFed
    <3>2. CASE sess.fd
      <4>1. o.sess.file = mail[n].blocks
        BY <1>7, <2>4, <3>1, <3>2
      <4> QED BY <1>3, <1>5, <1>7, <1>8, <2>1, <2>4, <3>1, <3>2, <4>1 DEF BodyIsFed
    <3>3. CASE ~ sess.fd
      <4>1. "block" \notin QmailFaults => o.be.qq[n].msg = mail[n].blocks
        BY <1>7, <2>4, <3>1, <3>3
      <4> QED BY <1>3, <1>5, <1>7, <1>8, <2>1, <2>4, <3>1, <3>3, <4>1 DEF BodyIsFed
    <3> QED BY <3>2, <3>3
  <2> QED BY <1>5, <2>2, <2>3, <2>4
<1>10. Delivers("body", o.sess, o.be, mail) /\ QueuesNothing(be.qq, o.be.qq)
  <2>1. sess.n <= n /\ n = o.sess.n
    BY <1>3, <1>5
  <2> QED BY <1>3, <1>5, <1>8, <1>9, <2>1, StepDelivers
<1>11. TypeOK'
  BY <1>2, <1>5, <1>6 DEF Delivery, TypeOK
<1> QED BY <1>2, <1>6, <1>10, <1>11 DEF Delivery


\* The answer to the message in hand, with the pipes closed.
LEMMA AnswerDelivers ==
  ASSUME Delivery, pc \in {"body", "ending"}, NEW o, Answers(o), o.resp # "busy",
         o.sess \in Session, o.sess.n = sess.n,
         o.be \in QmailState, o.be.epipe = 0, o.be.mpipe = 0,
         SparesBut(be.qq, o.be.qq, sess.n),
         o.be.qq[sess.n].queued = be.qq[sess.n].queued,
         ProcessHolds(o.be.qq[sess.n],
                      Told(mail[sess.n], IF response_ok(o.resp) THEN "ack" ELSE "nak"))
  PROVE  Delivery' /\ QueuesNothing(be.qq, be'.qq)
<1> DEFINE v == IF response_ok(o.resp) THEN "ack" ELSE "nak"
<1>1. /\ sess' = o.sess /\ be' = o.be /\ pc' = "command" /\ offer' = NoOffer
      /\ mail' = [mail EXCEPT ![sess.n].verdict = v]
      /\ UNCHANGED <<saw_mail, saw_rcpt, rcpts>>
  BY DEF Answers, Becomes
<1>2. v \in Verdict
  BY DEF Verdict
<1>3. ProcessHolds(o.be.qq[sess.n], Told(mail[sess.n], v))
  OBVIOUS
<1> HIDE DEF v
<1>4. sess.n \in Number /\ mail \in [Number -> Mail]
  BY DeliveryHolds, BodyUnderWay
<1>5. mail' = Settled(mail, sess.n, v)
  BY <1>1 DEF Settled, Told
<1>6. /\ Settled(mail, sess.n, v) \in [Number -> Mail]
      /\ Delivers("command", o.sess, o.be, Settled(mail, sess.n, v))
      /\ QueuesNothing(be.qq, o.be.qq)
  BY <1>2, <1>3, VerdictDelivers
<1>7. TypeOK'
  BY <1>1, <1>5, <1>6, OfferTypes DEF Delivery, TypeOK
<1> QED BY <1>1, <1>5, <1>6, <1>7 DEF Delivery

\* Or it goes on.
LEMMA BusyDelivers ==
  ASSUME Delivery, NEW o, Answers(o), o.resp = "busy",
         o.sess \in Session, o.be \in QmailState,
         Delivers("ending", o.sess, o.be, mail)
  PROVE  Delivery'
<1>1. /\ sess' = o.sess /\ be' = o.be /\ pc' = "ending"
      /\ UNCHANGED <<saw_mail, saw_rcpt, rcpts, offer, mail>>
  BY DEF Answers, Becomes
<1>2. TypeOK'
  BY <1>1 DEF Delivery, TypeOK
<1> QED BY <1>1, <1>2 DEF Delivery

\* A refusal settles a message whose process holds while it is open, and is barred.
LEMMA BarredHolds ==
  ASSUME NEW q, NEW x \in Mail, Sound(q), Barred(q),
         "block" \notin QmailFaults => Whole(q, x.blocks)
  PROVE  ProcessHolds(q, Told(x, "nak"))
<1> DEFINE y == Told(x, "nak")
<1>1. y.verdict = "nak" /\ y.blocks = x.blocks
  BY DEF Told, Mail
<1> HIDE DEF y
<1>2. ProcessHolds(q, y)
  BY <1>1 DEF ProcessHolds
<1> QED BY <1>2 DEF y

\* The end of the body.
LEMMA EndOfBodyDelivers ==
  ASSUME Delivery, EndOfBody
  PROVE  Delivery' /\ QueuesNothing(be.qq, be'.qq)
<1> DEFINE n == sess.n
           p == be.qq[n]
<1>0. PICK answers \in Chains : \E o \in handle_message_end(sess, be, answers) : Answers(o)
  BY DEF EndOfBody
<1>1. PICK o \in handle_message_end(sess, be, answers) : Answers(o)
  BY <1>0
<1> DEFINE q == o.be.qq[n]
<1>2. pc = "body"
  BY DEF EndOfBody
<1>3. /\ n \in Message /\ n \in Nat /\ mail \in [Message -> Mail] /\ mail[n] \in Mail
      /\ be \in QmailState /\ sess \in Session /\ be.buf \in Seq(Entry) /\ p \in QmailQueue
      /\ BodyIsFed("body", sess, be, mail) /\ ProcessHolds(p, mail[n])
  BY <1>2, DeliveryHolds, BodyUnderWay DEF QmailState
<1>4. /\ mail[n].verdict = "open" /\ p.env = <<>> /\ Sound(p) /\ ~ p.queued
      /\ Handed("body", sess, mail) = mail[n].blocks
      /\ IF ~ response_ok(sess.dresp) THEN be.epipe = 0 /\ be.mpipe = 0
         ELSE /\ be.epipe = n
              /\ IF sess.fd THEN be.mpipe = 0 /\ sess.file = mail[n].blocks
                 ELSE /\ be.mpipe = n /\ be.pid = n
                      /\ "block" \notin QmailFaults => p.msg = mail[n].blocks
  BY <1>3 DEF BodyIsFed, ProcessHolds, Sound, Handed
<1>5. /\ o.sess \in Session /\ o.sess.n = n /\ o.be \in QmailState
      /\ \/ /\ o.resp # "busy" /\ ~ response_ok(o.resp)
            /\ o.be.epipe = 0 /\ o.be.mpipe = 0 /\ SparesAll(be.qq, o.be.qq)
         \/ /\ o.resp = "busy" /\ response_ok(sess.dresp)
            /\ EnvelopeReady(be, o.be, n, sess.fd, sess.file)
  <2>1. IF response_ok(sess.dresp) THEN be.epipe = n ELSE be.epipe = 0 /\ be.mpipe = 0
    BY <1>4
  <2> QED BY <1>3, <2>1, MessageEndFeeds
<1>6. CASE o.resp # "busy"
  <2>1. /\ ~ response_ok(o.resp) /\ o.be.epipe = 0 /\ o.be.mpipe = 0
        /\ SparesBut(be.qq, o.be.qq, n) /\ Spares(p, q) /\ q.queued = p.queued
    BY <1>3, <1>5, <1>6 DEF SparesAll, SparesBut, Spares
  <2>2. ProcessHolds(q, Told(mail[n], "nak"))
    <3> DEFINE x == Told(mail[n], "nak")
    <3>1. x.verdict # "ack"
      BY <1>3 DEF Told, Mail
    <3>2. Unwritten(p, q)
      BY <2>1, SparedIsUnwritten
    <3> HIDE DEF x
    <3>3. ProcessHolds(q, x)
      BY <1>4, <3>1, <3>2, UnwrittenHolds
    <3> QED BY <3>3 DEF x
  <2>3. ProcessHolds(q, Told(mail[n], IF response_ok(o.resp) THEN "ack" ELSE "nak"))
    BY <2>1, <2>2
  <2> QED BY <1>1, <1>2, <1>5, <1>6, <2>1, <2>3, AnswerDelivers
<1>7. CASE o.resp = "busy"
  <2>1. /\ response_ok(sess.dresp)
        /\ o.be.phase = "envelope" /\ o.be.epipe = n /\ o.be.pid = n /\ o.be.mpipe = 0
        /\ SparesBut(be.qq, o.be.qq, n)
        /\ q.env = Append(be.buf, EndMark)
        /\ q.sent = p.sent /\ q.read = p.read /\ q.queued = p.queued
        /\ q.st \in {p.st, "run"}
        /\ "block" \notin QmailFaults => q.msg = mail[n].blocks
    <3>1. /\ response_ok(sess.dresp) /\ sess.fd \in BOOLEAN
          /\ EnvelopeReady(be, o.be, n, sess.fd, sess.file)
      BY <1>3, <1>5, <1>7 DEF Session
    <3>2. CASE sess.fd
      BY <1>4, <3>1, <3>2 DEF EnvelopeReady
    <3>3. CASE ~ sess.fd
      BY <1>4, <3>1, <3>3 DEF EnvelopeReady
    <3> QED BY <3>1, <3>2, <3>3
  <2>2. q.env # <<>> /\ Len(q.env) \in Nat /\ q.sent <= Len(q.env) /\ q.read <= q.sent
    <3>1. q.env \in Seq(Entry) /\ Len(q.env) = Len(be.buf) + 1 /\ Len(be.buf) \in Nat
      <4>1. be.buf \in Seq(Entry)
        BY <1>3
      <4>2. q.env = Append(be.buf, EndMark)
        BY <2>1
      <4> HIDE DEF q
      <4> QED BY <4>1, <4>2, MarkTypes
    <3>2. p.sent \in Nat /\ p.read \in Nat /\ p.read <= p.sent /\ p.sent <= 0
      BY <1>3, <1>4 DEF Sound, QmailQueue
    <3>3. q.env # <<>>
      BY <3>1
    <3> HIDE DEF p, q
    <3> QED BY <2>1, <3>1, <3>2, <3>3
  <2>3. Sound(q)
    BY <1>4, <2>1, <2>2 DEF Sound
  <2>4. ProcessHolds(q, mail[n])
    BY <1>4, <2>1, <2>3 DEF ProcessHolds, Whole
  <2>5. EndIsOwn(o.sess, o.be, mail)
    BY <1>3, <1>4, <1>5, <2>1 DEF EndIsOwn
  <2>6. Delivers("ending", o.sess, o.be, mail) /\ QueuesNothing(be.qq, o.be.qq)
    <3>1. sess.n <= n /\ n = o.sess.n
      <4>1. n \in Nat
        BY <1>3
      <4>2. n = o.sess.n
        BY <1>5
      <4> QED BY <4>1, <4>2
    <3> QED BY <1>3, <2>1, <2>4, <2>5, <3>1, StepDelivers
  <2>7. be' = o.be
    BY <1>1 DEF Answers, Becomes
  <2> QED BY <1>1, <1>5, <1>7, <2>6, <2>7, BusyDelivers
<1> QED BY <1>6, <1>7


\* The rest of message_end.
LEMMA EndGoesOnDelivers ==
  ASSUME Delivery, EndGoesOn
  PROVE  Delivery' /\ QueuesNothing(be.qq, be'.qq)
<1> DEFINE n == sess.n
           p == be.qq[n]
<1>1. PICK o \in handle_message_end_goes_on(sess, be) : Answers(o)
  BY DEF EndGoesOn
<1>2. PICK g \in message_end_goes_on(be) : o = MessageEnded(sess, g.be, g.resp)
  BY <1>1 DEF handle_message_end_goes_on
<1> DEFINE q == g.be.qq[n]
<1>3. pc = "ending"
  BY DEF EndGoesOn
<1>4. /\ n \in Message /\ n \in Nat /\ mail \in [Message -> Mail] /\ mail[n] \in Mail
      /\ be \in QmailState /\ sess \in Session /\ p \in QmailQueue
      /\ mail[n].verdict = "open" /\ ProcessHolds(p, mail[n])
      /\ be.pid = n /\ be.mpipe = 0 /\ be.epipe = IF be.phase = "envelope" THEN n ELSE 0
  BY <1>3, DeliveryHolds, BodyUnderWay DEF QmailState, EndIsOwn
<1>5. /\ g.be \in QmailState
      /\ \/ /\ be.phase = "envelope" /\ g.resp = "busy" /\ g.be.phase = "waitpid"
            /\ g.be.pid = n /\ g.be.epipe = 0 /\ g.be.mpipe = 0
            /\ SparesAll(be.qq, g.be.qq)
         \/ /\ be.phase = "envelope" /\ g.resp = "temp" /\ SparesAll(be.qq, g.be.qq)
            /\ p.sent # Len(p.env)
         \/ /\ be.phase = "envelope" /\ g.resp = "busy" /\ g.be.phase = "envelope"
            /\ g.be.pid = n /\ g.be.epipe = n /\ g.be.mpipe = 0
            /\ SparesBut(be.qq, g.be.qq, n)
            /\ p.sent # Len(p.env) /\ q.sent = p.sent + 1
            /\ q.st = p.st /\ q.msg = p.msg /\ q.got = p.got /\ q.env = p.env
            /\ q.read = p.read /\ q.queued = p.queued
         \/ /\ be.phase # "envelope" /\ g.resp \in {"ok", "perm", "temp"}
            /\ g.be.epipe = 0 /\ g.be.mpipe = 0
            /\ SparesBut(be.qq, g.be.qq, n)
            /\ q = Reaped(p)
            /\ g.resp = "ok" => p.st = "ok"
  <2>1. be.pid \in Message /\ (be.phase = "envelope" => be.epipe \in Message)
    BY <1>4
  <2>2. CASE be.phase = "envelope"
    <3>1. be.epipe = n
      BY <1>4, <2>2
    <3> HIDE DEF n
    <3>2. /\ g.be \in QmailState
          /\ \/ /\ g.resp = "busy" /\ g.be.phase = "waitpid"
                /\ g.be.pid = be.pid /\ g.be.epipe = 0 /\ g.be.mpipe = 0
                /\ SparesAll(be.qq, g.be.qq)
             \/ /\ g.resp = "temp" /\ SparesAll(be.qq, g.be.qq)
                /\ be.qq[be.epipe].sent # Len(be.qq[be.epipe].env)
             \/ /\ g.resp = "busy" /\ g.be.phase = "envelope"
                /\ g.be.pid = be.pid /\ g.be.epipe = be.epipe /\ g.be.mpipe = be.mpipe
                /\ SparesBut(be.qq, g.be.qq, be.epipe)
                /\ LET u == be.qq[be.epipe]
                       w == g.be.qq[be.epipe]
                   IN  /\ u.sent # Len(u.env) /\ w.sent = u.sent + 1
                       /\ w.st = u.st /\ w.msg = u.msg /\ w.got = u.got /\ w.env = u.env
                       /\ w.read = u.read /\ w.queued = u.queued
      <4>1. be \in QmailState /\ be.pid \in Message
            /\ (be.phase = "envelope" => be.epipe \in Message)
            /\ g \in message_end_goes_on(be)
        BY <1>2, <1>4, <2>1
      <4> HIDE DEF p, q
      <4> QED BY <2>2, <4>1, GoesOnSteps
    <3> QED BY <1>4, <2>2, <3>1, <3>2
  <2>3. CASE be.phase # "envelope"
    <3>1. be.epipe = 0
      BY <1>4, <2>3
    <3> HIDE DEF n
    <3> QED BY <1>4, <2>1, <2>3, <3>1, GoesOnSteps
  <2> QED BY <2>2, <2>3
<1>6. Sound(p) /\ ("block" \notin QmailFaults => Whole(p, mail[n].blocks))
  BY <1>4 DEF ProcessHolds
<1> DEFINE Busy == /\ g.resp = "busy" /\ EndIsOwn(sess, g.be, mail)
                   /\ ProcessHolds(q, mail[n])
                   /\ SparesBut(be.qq, g.be.qq, n) /\ q.queued = p.queued
           Refuses == /\ g.resp \in {"temp", "perm"}
                      /\ SparesBut(be.qq, g.be.qq, n) /\ q.queued = p.queued
                      /\ Sound(q) /\ Barred(q)
                      /\ "block" \notin QmailFaults => Whole(q, mail[n].blocks)
           Succeeds == /\ g.resp = "ok" /\ g.be.epipe = 0 /\ g.be.mpipe = 0
                       /\ SparesBut(be.qq, g.be.qq, n) /\ q.queued = p.queued
                       /\ ProcessHolds(q, Told(mail[n], "ack"))
<1>7. Busy \/ Refuses \/ Succeeds
  <2>0. SparesAll(be.qq, g.be.qq) =>
          SparesBut(be.qq, g.be.qq, n) /\ Spares(p, q) /\ q.queued = p.queued
    BY <1>4 DEF SparesAll, SparesBut, Spares
  <2>1. CASE be.phase = "envelope" /\ g.resp = "busy" /\ g.be.phase = "waitpid"
    <3>1. Sound(q) /\ ("block" \notin QmailFaults => Whole(q, mail[n].blocks))
      BY <1>5, <1>6, <2>0, <2>1, SparesProcess
    <3>2. ProcessHolds(q, mail[n])
      BY <1>4, <3>1 DEF ProcessHolds
    <3>3. EndIsOwn(sess, g.be, mail)
      BY <1>4, <1>5, <2>1 DEF EndIsOwn
    <3> QED BY <1>5, <2>0, <2>1, <3>2, <3>3
  <2>2. CASE be.phase = "envelope" /\ g.resp = "temp"
    <3>1. SparesAll(be.qq, g.be.qq) /\ p.sent # Len(p.env)
      BY <1>5, <2>2
    <3>2. Barred(p)
      <4>1. p.sent \in Nat /\ Len(p.env) \in Nat /\ p.sent <= Len(p.env)
        BY <1>4, <1>6 DEF Sound, QmailQueue
      <4>2. p.sent < Len(p.env)
        BY <3>1, <4>1
      <4> QED BY <4>2 DEF Barred
    <3>3. /\ Sound(q) /\ Barred(q)
          /\ "block" \notin QmailFaults => Whole(q, mail[n].blocks)
      BY <1>6, <2>0, <3>1, <3>2, SparesProcess
    <3> QED BY <2>0, <2>2, <3>1, <3>3
  <2>3. CASE be.phase = "envelope" /\ g.resp = "busy" /\ g.be.phase = "envelope"
    <3>1. /\ p.sent # Len(p.env) /\ q.sent = p.sent + 1
          /\ q.st = p.st /\ q.msg = p.msg /\ q.got = p.got /\ q.env = p.env
          /\ q.read = p.read /\ q.queued = p.queued /\ SparesBut(be.qq, g.be.qq, n)
          /\ g.be.pid = n /\ g.be.epipe = n /\ g.be.mpipe = 0
      BY <1>5, <2>3
    <3>2. Sound(q)
      <4>1. /\ p.sent \in Nat /\ p.read \in Nat /\ Len(p.env) \in Nat
            /\ p.read <= p.sent /\ p.sent <= Len(p.env)
        BY <1>4, <1>6 DEF Sound, QmailQueue
      <4>2. q.read <= q.sent /\ q.sent <= Len(q.env)
        BY <3>1, <4>1
      <4> QED BY <1>6, <3>1, <4>2 DEF Sound
    <3>3. ProcessHolds(q, mail[n])
      BY <1>4, <1>6, <3>1, <3>2 DEF ProcessHolds, Whole
    <3>4. EndIsOwn(sess, g.be, mail)
      BY <1>4, <2>3, <3>1 DEF EndIsOwn
    <3> QED BY <2>3, <3>1, <3>3, <3>4
  <2>4. CASE be.phase # "envelope"
    <3>1. /\ g.resp \in {"ok", "perm", "temp"} /\ g.be.epipe = 0 /\ g.be.mpipe = 0
          /\ SparesBut(be.qq, g.be.qq, n) /\ q = Reaped(p)
          /\ g.resp = "ok" => p.st = "ok"
      BY <1>5, <2>4
    <3> HIDE DEF p, q
    <3>2. /\ Sound(q) /\ Barred(q) /\ q.queued = p.queued
          /\ "block" \notin QmailFaults => Whole(q, mail[n].blocks)
      BY <1>4, <1>6, <3>1, ReapedProcess
    <3>3. CASE g.resp = "ok"
      <4>1. q.queued
        BY <1>6, <3>1, <3>2, <3>3 DEF Sound
      <4> DEFINE x == Told(mail[n], "ack")
      <4>2. x.verdict = "ack" /\ x.blocks = mail[n].blocks
        BY <1>4 DEF Told, Mail
      <4> HIDE DEF x
      <4>3. ProcessHolds(q, x)
        BY <3>2, <4>1, <4>2 DEF ProcessHolds
      <4> QED BY <3>1, <3>2, <3>3, <4>3 DEF x
    <3>4. CASE g.resp # "ok"
      BY <3>1, <3>2, <3>4
    <3> QED BY <3>3, <3>4
  <2> QED BY <1>5, <2>1, <2>2, <2>3, <2>4
<1> HIDE DEF Busy, Refuses, Succeeds
<1>8. CASE Busy
  <2>1. o = Outcome(sess, g.be, "busy")
    BY <1>2, <1>8 DEF Busy, MessageEnded
  <2>2. o.sess = sess /\ o.be = g.be /\ o.resp = "busy"
    BY <2>1 DEF Outcome
  <2>3. Delivers("ending", sess, g.be, mail) /\ QueuesNothing(be.qq, g.be.qq)
    <3>1. /\ EndIsOwn(sess, g.be, mail) /\ ProcessHolds(q, mail[n])
          /\ SparesBut(be.qq, g.be.qq, n) /\ q.queued = p.queued
      BY <1>8 DEF Busy
    <3>2. n = sess.n /\ sess.n <= n /\ n \in Message
      BY <1>4
    <3> HIDE DEF n
    <3> QED BY <3>1, <3>2, StepDelivers
  <2>4. be' = g.be
    BY <1>1, <2>2 DEF Answers, Becomes
  <2> QED BY <1>1, <1>4, <1>5, <2>2, <2>3, <2>4, BusyDelivers
<1>9. CASE Refuses
  <2>0. /\ g.resp \in {"temp", "perm"}
        /\ SparesBut(be.qq, g.be.qq, n) /\ q.queued = p.queued
        /\ Sound(q) /\ Barred(q)
        /\ "block" \notin QmailFaults => Whole(q, mail[n].blocks)
    BY <1>9 DEF Refuses
  <2>1. ~ response_ok(g.resp) /\ g.resp # "busy"
    BY <2>0 DEF response_ok
  <2>2. o = ResetAnd(sess, g.be, g.resp)
    BY <1>2, <2>1 DEF MessageEnded
  <2>3. /\ o.sess \in Session /\ o.sess.n = sess.n
        /\ o.be \in QmailState /\ o.be.epipe = 0 /\ o.be.mpipe = 0
        /\ SparesAll(g.be.qq, o.be.qq)
    <3>1. PICK b : b = g.be
      OBVIOUS
    <3>2. b \in QmailState /\ sess \in Session /\ o = ResetAnd(sess, b, g.resp)
      BY <1>4, <1>5, <2>2, <3>1
    <3>3. /\ o.sess \in Session /\ o.sess.n = sess.n
          /\ o.be \in QmailState /\ o.be.epipe = 0 /\ o.be.mpipe = 0
          /\ SparesAll(b.qq, o.be.qq)
      BY ONLY <3>2, ResetCloses
    <3> QED BY <3>1, <3>3
  <2>4. o.resp = g.resp
    BY <2>2 DEF ResetAnd, Outcome
  <2> DEFINE r == o.be.qq[n]
  <2>5. Spares(q, r) /\ SparesBut(g.be.qq, o.be.qq, n) /\ r.queued = p.queued
    BY <1>4, <2>0, <2>3 DEF SparesAll, SparesBut, Spares
  <2>6. SparesBut(be.qq, o.be.qq, n)
    BY <2>0, <2>5, SparesButTransitive
  <2>7. ProcessHolds(r, Told(mail[n], "nak"))
    <3>1. /\ Sound(r) /\ Barred(r)
          /\ "block" \notin QmailFaults => Whole(r, mail[n].blocks)
      BY <2>0, <2>5, SparesProcess
    <3> QED BY <1>4, <3>1, BarredHolds
  <2>8. ProcessHolds(r, Told(mail[n], IF response_ok(o.resp) THEN "ack" ELSE "nak"))
    BY <2>1, <2>4, <2>7
  <2> QED BY <1>1, <1>3, <2>1, <2>3, <2>4, <2>5, <2>6, <2>8, AnswerDelivers
<1>10. CASE Succeeds
  <2>0. /\ g.resp = "ok" /\ g.be.epipe = 0 /\ g.be.mpipe = 0
        /\ SparesBut(be.qq, g.be.qq, n) /\ q.queued = p.queued
        /\ ProcessHolds(q, Told(mail[n], "ack"))
    BY <1>10 DEF Succeeds
  <2>1. o = Outcome(CloseFile(sess), g.be, "ok") /\ response_ok("ok")
    BY <1>2, <2>0 DEF MessageEnded, response_ok
  <2>2. o.sess = CloseFile(sess) /\ o.be = g.be /\ o.resp = "ok"
    BY <2>1 DEF Outcome
  <2>3. o.sess \in Session /\ o.sess.n = sess.n
    BY <1>4, <2>2, CloseFileType
  <2>4. ProcessHolds(q, Told(mail[n], IF response_ok(o.resp) THEN "ack" ELSE "nak"))
    BY <2>0, <2>1, <2>2
  <2> QED BY <1>1, <1>3, <1>5, <2>0, <2>2, <2>3, <2>4, AnswerDelivers
<1> QED BY <1>7, <1>8, <1>9, <1>10


\* A process's own steps, and its death: it queues its message only while it may.
LEMMA QmailQueueDelivers ==
  ASSUME Delivery, NEW k \in Message, QmailQueueProceeds(k) \/ QmailQueueFails(k)
  PROVE  /\ Delivery'
         /\ \A j \in Message :
              mail[j].verdict \in {"nak", "cut"} /\ ~ be.qq[j].queued => ~ be'.qq[j].queued
<1> DEFINE p == be.qq[k]
<1>1. PICK r \in Proceeds(p) \cup Fails(p) : be' = [be EXCEPT !.qq[k] = r]
  BY DEF QmailQueueProceeds, QmailQueueFails, Moves
<1>2. /\ p.st = "run"
      /\ UNCHANGED <<pc, saw_mail, saw_rcpt, sess, rcpts, offer, mail>>
  BY DEF QmailQueueProceeds, QmailQueueFails, Moves
<1>3. /\ be \in QmailState /\ p \in QmailQueue /\ ProcessHolds(p, mail[k])
      /\ ProcessesHold(be.qq, mail) /\ NoneAfter(sess.n, be.qq)
  BY DeliveryHolds DEF QmailState, ProcessesHold
<1>4. /\ r \in QmailQueue /\ Sound(r) /\ r.env = p.env /\ r.msg = p.msg
      /\ p.queued => r.queued
      /\ r.queued /\ ~ p.queued => ~ Barred(p)
      /\ Barred(p) => Barred(r)
      /\ \A n : Whole(p, n) => Whole(r, n)
  BY <1>2, <1>3, ProcessGoesOn DEF ProcessHolds
<1>5. be' = [be EXCEPT !.qq = [be.qq EXCEPT ![k] = r]]
  BY <1>1, <1>3 DEF QmailState
<1>6. /\ be' \in QmailState /\ be'.epipe = be.epipe /\ be'.mpipe = be.mpipe
      /\ be'.pid = be.pid /\ be'.phase = be.phase
      /\ be'.qq[k] = r /\ SparesBut(be.qq, be'.qq, k)
  BY <1>3, <1>4, <1>5, ProcessReplaced
<1>7. ProcessHolds(r, mail[k])
  BY <1>3, <1>4 DEF ProcessHolds
<1>8. ProcessesHold(be'.qq, mail)
  BY <1>3, <1>6, <1>7, OneChanges
<1>9. \A j \in Message : /\ be'.qq[j].env = be.qq[j].env /\ be'.qq[j].msg = be.qq[j].msg
                         /\ j # k => be'.qq[j].queued = be.qq[j].queued
  BY <1>4, <1>6 DEF SparesBut, Spares
<1>10. NoneAfter(sess.n, be'.qq)
  BY <1>3, <1>9 DEF NoneAfter
<1>11. Delivers(pc, sess, be', mail)
  <2>1. Delivers(pc, sess, be, mail)
    BY DEF Delivery
  <2>2. ASSUME NEW q \in {"body", "block"}, BodyIsFed(q, sess, be, mail)
        PROVE  BodyIsFed(q, sess, be', mail)
    BY <1>6, <1>9, <2>2 DEF BodyIsFed
  <2>3. EndIsOwn(sess, be, mail) => EndIsOwn(sess, be', mail)
    BY <1>6 DEF EndIsOwn
  <2> QED BY <1>6, <1>8, <1>10, <2>1, <2>2, <2>3 DEF Delivers
<1>12. TypeOK'
  BY <1>2, <1>6 DEF Delivery, TypeOK
<1>13. ASSUME NEW j \in Message, mail[j].verdict \in {"nak", "cut"}, ~ be.qq[j].queued
       PROVE  ~ be'.qq[j].queued
  <2>1. CASE j # k
    BY <1>9, <1>13, <2>1
  <2>2. CASE j = k
    <3>1. Barred(p)
      BY <1>3, <1>13, <2>2 DEF ProcessHolds
    <3> QED BY <1>4, <1>6, <1>13, <2>2, <3>1
  <2> QED BY <2>1, <2>2
<1> QED BY <1>2, <1>11, <1>12, <1>13 DEF Delivery

-----------------------------------------------------------------------------
(* The theorems about what becomes of the messages                         *)

\* A new session satisfies the invariant.
LEMMA InitDelivers ==
  ASSUME Init
  PROVE  Delivery
<1>1. PICK need \in NeedsFile : sess = NewSession(need)
  BY DEF Init, SmtpInit
<1>2. /\ pc = "command" /\ saw_mail = FALSE /\ saw_rcpt = FALSE /\ be = QmailInit
      /\ rcpts = 0 /\ offer = NoOffer
      /\ mail = [n \in Number |-> NoMail]
  BY DEF Init, SmtpInit
<1>3. TypeOK
  BY InitEstablishes DEF Inductive
<1>4. /\ be.epipe = 0 /\ be.mpipe = 0
      /\ \A k \in Message : be.qq[k] = NoProcess /\ mail[k] = NoMail
  BY <1>2, Parameters DEF QmailInit
<1>5. ProcessHolds(NoProcess, NoMail) /\ NoProcess.env = <<>>
  BY DEF ProcessHolds, NoProcess, NoMail, Sound, Whole
<1>6. ProcessesHold(be.qq, mail) /\ NoneAfter(sess.n, be.qq)
  BY <1>4, <1>5 DEF ProcessesHold, NoneAfter
<1> QED BY <1>2, <1>3, <1>4, <1>6 DEF Delivery, Delivers

\* What a step may not do to a message that was refused or cut short.
RefusedStays ==
  \A k \in Message :
    mail[k].verdict \in {"nak", "cut"} /\ ~ be.qq[k].queued => ~ be'.qq[k].queued

\* Every step preserves the invariant, and queues no such message.
LEMMA NextDelivers ==
  ASSUME Delivery, [Next]_vars
  PROVE  Delivery' /\ RefusedStays
<1>0. QueuesNothing(be.qq, be'.qq) => RefusedStays
  BY DEF QueuesNothing, RefusedStays
<1>1. CASE HELO \/ RSET
  BY <1>0, <1>1, ResetDelivers
<1>2. CASE ResetFails \/ Leave \/ Alarm
  BY <1>0, <1>2, ExitDelivers
<1>3. ASSUME NEW a \in Address, MAIL(a)
      PROVE  Delivery' /\ RefusedStays
  BY <1>0, <1>3, MailDelivers
<1>4. ASSUME NEW a \in Address, RCPT(a)
      PROVE  Delivery' /\ RefusedStays
  BY <1>0, <1>4, RcptDelivers
<1>5. CASE DATA
  BY <1>0, <1>5, DataDelivers
<1>6. CASE BlockArrives
  BY <1>0, <1>6, BlockArrivesDelivers
<1>7. CASE BlockHandled
  BY <1>0, <1>7, BlockHandledDelivers
<1>8. CASE EndOfBody
  BY <1>0, <1>8, EndOfBodyDelivers
<1>9. CASE EndGoesOn
  BY <1>0, <1>9, EndGoesOnDelivers
<1>10. ASSUME NEW k \in Message, QmailQueueProceeds(k) \/ QmailQueueFails(k)
       PROVE  Delivery' /\ RefusedStays
  BY <1>10, QmailQueueDelivers DEF RefusedStays
<1>11. CASE UNCHANGED vars
  BY <1>11 DEF vars, Delivery, TypeOK, RefusedStays
<1> QED BY <1>1, <1>2, <1>3, <1>4, <1>5, <1>6, <1>7, <1>8, <1>9, <1>10, <1>11
        DEF Next, SmtpNext

(***************************************************************************)
(* The second invariant always holds, for every value of the constants and *)
(* whatever fails.                                                         *)
(***************************************************************************)
THEOREM DeliveryAlways == Spec => []Delivery
<1>1. Init => Delivery
  BY InitDelivers
<1>2. Delivery /\ [Next]_vars => Delivery'
  BY NextDelivers
<1> QED BY <1>1, <1>2, PTL DEF Spec

\* The session, the container, the backend and its processes are always well typed.
THEOREM TypeCorrect == Spec => []TypeOK
<1>1. Delivery => TypeOK
  BY DEF Delivery
<1> QED BY <1>1, DeliveryAlways, PTL

(***************************************************************************)
(* A message the client was told is accepted is in the queue: handle_      *)
(* message_end reports a success only once the message's own process has   *)
(* been waited for and has exited 0.                                       *)
(***************************************************************************)
THEOREM AcceptedAlwaysQueued == Spec => []AcceptedIsQueued
<1>1. Delivery => AcceptedIsQueued
  BY DEF Delivery, Delivers, ProcessesHold, ProcessHolds, AcceptedIsQueued
<1> QED BY <1>1, DeliveryAlways, PTL

(***************************************************************************)
(* All of a queued message is what the client sent, when no write of a     *)
(* block fails: handle_data_bytes ignores what data_block returns, and a   *)
(* block that could not be written is missing from the message.            *)
(***************************************************************************)
THEOREM QueuedAlwaysWhole ==
  ASSUME "block" \notin QmailFaults
  PROVE  Spec => []QueuedIsWhole
<1>1. Delivery => QueuedIsWhole
  BY DEF Delivery, Delivers, ProcessesHold, ProcessHolds, Whole, QueuedIsWhole
<1> QED BY <1>1, DeliveryAlways, PTL

(***************************************************************************)
(* No process left running by a message that was refused, or cut short,    *)
(* queues it.                                                              *)
(***************************************************************************)
THEOREM RefusedAlwaysStaysOut == Spec => RefusedStaysOut
<1>1. Delivery /\ [Next]_vars => [RefusedStays]_vars
  BY NextDelivers
<1>2. Spec => [][RefusedStays]_vars
  BY <1>1, DeliveryAlways, PTL DEF Spec
<1>3. RefusedStaysOut <=> [][RefusedStays]_vars
  BY DEF RefusedStaysOut, RefusedStays
<1> QED BY <1>2, <1>3

-----------------------------------------------------------------------------
(***************************************************************************)
(* The session implements Submission.  Its own steps queue nothing, and    *)
(* tell the client of one message at most; the processes' steps tell it    *)
(* nothing.                                                                *)
(***************************************************************************)

\* The messages started so far are the first ones, and the others have no verdict.
Numbered == \A k \in Message : mail[k].verdict = "none" <=> k > sess.n

SameVerdicts == \A k \in Message : mail'[k].verdict = mail[k].verdict

\* The client is told v of message n, which it had begun or begins.
Tells(n, v) ==
  /\ mail'[n].verdict = v
  /\ \A k \in Message : k # n => mail'[k].verdict = mail[k].verdict
  /\ \/ mail[n].verdict = "none" /\ v \in {"open", "nak"}
     \/ mail[n].verdict = "open" /\ v \in {"ack", "nak", "unknown"}
     \/ mail[n].verdict = "open" /\ v = "cut" /\ ~ be.qq[n].queued

\* What a step of the session may tell it.
Dialogue == SameVerdicts \/ \E n \in Message, v \in Verdict : Tells(n, v)

\* A step that queues nothing is one of Submission's.
LEMMA DialogueImplements ==
  ASSUME Dialogue, Delivery', QueuesNothing(be.qq, be'.qq)
  PROVE  [Promise!Next]_(Promise!vars)
<1>1. {k \in Message : be'.qq[k].queued} = {k \in Message : be.qq[k].queued}
  BY DEF QueuesNothing
<1>2. CASE SameVerdicts
  BY <1>1, <1>2 DEF SameVerdicts, Promise!vars
<1>3. ASSUME NEW n \in Message, NEW v \in Verdict, Tells(n, v)
      PROVE  Promise!Next
  <2>1. Promise!Tells(n, v)
    BY <1>3 DEF Tells, Promise!Tells
  <2>2. Promise!MayDrop(n)
    BY <1>1 DEF Promise!MayDrop
  <2>3. CASE v = "open"
    BY <1>1, <1>3, <2>1, <2>3 DEF Tells, Promise!Submit, Promise!Next
  <2>4. CASE v = "ack"
    <3>1. be'.qq[n].queued /\ mail[n].verdict = "open"
      BY <1>3, <2>4 DEF Tells, Delivery, Delivers, ProcessesHold, ProcessHolds
    <3> QED BY <1>1, <2>1, <2>4, <3>1 DEF Promise!Accept, Promise!Next
  <2>5. CASE v = "nak"
    BY <1>3, <2>1, <2>2, <2>5 DEF Tells, Promise!Refuse, Promise!Next
  <2>6. CASE v \in {"cut", "unknown"}
    <3>1. mail[n].verdict = "open" /\ (v = "cut" => ~ be'.qq[n].queued)
      BY <1>1, <1>3, <2>6 DEF Tells
    <3> QED BY <2>1, <2>2, <2>6, <3>1 DEF Promise!Cut, Promise!Lose, Promise!Next
  <2> QED BY <1>3, <2>3, <2>4, <2>5, <2>6 DEF Tells
<1> QED BY <1>2, <1>3 DEF Dialogue

\* Between messages, and while a body comes, the client is told nothing.
LEMMA NothingTold ==
  ASSUME Delivery, Numbered,
         HELO \/ RSET \/ (\E a \in Address : MAIL(a) \/ RCPT(a)) \/ BlockArrives \/ BlockHandled
  PROVE  Numbered' /\ SameVerdicts
<1>1. sess'.n = sess.n
  <2>1. CASE HELO \/ RSET
    <3>1. PICK answers \in Chains : Becomes(handle_reset(sess, be, answers))
      BY <2>1 DEF HELO, RSET
    <3> QED BY <3>1, DeliveryHolds, ResetCloses DEF Becomes
  <2>2. ASSUME NEW a \in Address, MAIL(a)
        PROVE  sess'.n = sess.n
    <3>1. PICK resets \in Chains, answers \in Chains :
            LET r == handle_reset(sess, be, resets)
            IN  \E o \in handle_sender(r.sess, r.be, a, answers) : Becomes(o)
      BY <2>2 DEF MAIL
    <3> DEFINE r == handle_reset(sess, be, resets)
    <3>2. r.sess \in Session /\ r.sess.n = sess.n /\ r.be \in QmailState
      BY DeliveryHolds, ResetCloses
    <3>3. PICK o \in handle_sender(r.sess, r.be, a, answers) : Becomes(o)
      BY <3>1
    <3> HIDE DEF r
    <3>4. o.sess = r.sess
      BY <3>2, <3>3, AddressHandled
    <3> QED BY <3>2, <3>3, <3>4 DEF Becomes
  <2>3. ASSUME NEW a \in Address, RCPT(a)
        PROVE  sess'.n = sess.n
    <3>1. PICK answers \in Chains : \E o \in handle_recipient(sess, be, a, answers) : Becomes(o)
      BY <2>3 DEF RCPT
    <3>2. PICK o \in handle_recipient(sess, be, a, answers) : Becomes(o)
      BY <3>1
    <3>3. o.sess = sess
      BY <3>2, DeliveryHolds, AddressHandled
    <3> QED BY <3>2, <3>3 DEF Becomes
  <2>4. CASE BlockArrives
    BY <2>4 DEF BlockArrives
  <2>5. CASE BlockHandled
    <3>1. PICK answers \in Chains : \E o \in handle_data_bytes(sess, be, answers) : Becomes(o)
      BY <2>5 DEF BlockHandled
    <3>2. PICK o \in handle_data_bytes(sess, be, answers) : Becomes(o)
      BY <3>1
    <3>3. o.sess.n = sess.n
      BY <3>2, DeliveryHolds, DataBytesHandled, Parameters
    <3> QED BY <3>2, <3>3 DEF Becomes
  <2> QED BY <2>1, <2>2, <2>3, <2>4, <2>5
<1>2. SameVerdicts
  <2>1. CASE BlockArrives
    <3>1. mail \in [Number -> Mail] /\ mail' = [mail EXCEPT ![sess.n].blocks = @ + 1]
      BY <2>1, DeliveryHolds DEF BlockArrives
    <3> QED BY <3>1, Parameters DEF SameVerdicts, Mail
  <2>2. CASE mail' = mail
    BY <2>2 DEF SameVerdicts
  <2> QED BY <2>1, <2>2 DEF HELO, RSET, MAIL, RCPT, BlockHandled
<1> QED BY <1>1, <1>2 DEF Numbered, SameVerdicts

\* The next message is begun, or refused at once.
LEMMA DataTells ==
  ASSUME Delivery, Numbered, DATA
  PROVE  Numbered' /\ Dialogue
<1> DEFINE n == sess.n + 1
<1>1. PICK answers \in Chains : \E o \in handle_data_start(sess, be, answers) :
        /\ Becomes(o)
        /\ mail' = [mail EXCEPT ![o.sess.n] =
             [offer |-> offer, blocks |-> 0,
              verdict |-> IF response_ok(o.resp) THEN "open" ELSE "nak"]]
  BY DEF DATA
<1>2. PICK o \in handle_data_start(sess, be, answers) :
        /\ Becomes(o)
        /\ mail' = [mail EXCEPT ![o.sess.n] =
             [offer |-> offer, blocks |-> 0,
              verdict |-> IF response_ok(o.resp) THEN "open" ELSE "nak"]]
  BY <1>1
<1> DEFINE v == IF response_ok(o.resp) THEN "open" ELSE "nak"
<1>3. /\ sess.n < MaxMessages /\ sess.n \in Nat /\ sess \in Session /\ be \in QmailState
      /\ Number = Message /\ mail \in [Message -> Mail]
  BY DeliveryHolds DEF DATA
<1>4. n \in Message
  BY <1>3, QmailAssumption DEF Message
<1>5. o.sess.n = n
  BY <1>2, <1>3, DataStartHandled, Parameters
<1>6. /\ sess'.n = n /\ mail'[n].verdict = v
      /\ \A k \in Message : k # n => mail'[k].verdict = mail[k].verdict
  BY <1>2, <1>3, <1>4, <1>5 DEF Becomes
<1>7. v \in {"open", "nak"} /\ v \in Verdict
  BY DEF Verdict
<1> HIDE DEF v
<1>8. mail[n].verdict = "none"
  BY <1>3, <1>4 DEF Numbered
<1>9. Tells(n, v)
  BY <1>6, <1>7, <1>8 DEF Tells
<1>10. ASSUME NEW k \in Message
       PROVE  mail'[k].verdict = "none" <=> k > n
  <2>1. k \in Nat
    BY DEF Message
  <2>2. CASE k = n
    BY <1>3, <1>6, <1>7, <2>2
  <2>3. CASE k # n
    BY <1>3, <1>6, <2>1, <2>3 DEF Numbered
  <2> QED BY <2>2, <2>3
<1>11. Numbered'
  BY <1>6, <1>10 DEF Numbered
<1> QED BY <1>4, <1>7, <1>9, <1>11 DEF Dialogue


\* A message under way is answered, or cut short before its envelope is written.
LEMMA SettlingTells ==
  ASSUME Delivery, Numbered, pc \in {"body", "block", "ending"}, sess'.n = sess.n,
         NEW v \in {"ack", "nak", "unknown", "cut"}, v = "cut" => pc # "ending",
         mail' = Settled(mail, sess.n, v)
  PROVE  Numbered' /\ Dialogue
<1> DEFINE n == sess.n
<1>1. n \in Message /\ n \in Nat /\ mail \in [Number -> Mail] /\ mail[n].verdict = "open"
  BY DeliveryHolds, BodyUnderWay
<1>2. v \in Verdict /\ v \notin {"none", "open"}
  BY DEF Verdict
<1>3. mail'[n].verdict = v /\ \A k \in Message : k # n => mail'[k] = mail[k]
  BY <1>1, <1>2, SettledOne, Parameters
<1>4. ASSUME v = "cut"
      PROVE  ~ be.qq[n].queued
  BY <1>4, BodyUnderWay DEF BodyIsFed, ProcessHolds, Sound
<1>5. Tells(n, v)
  BY <1>1, <1>3, <1>4 DEF Tells
<1>6. Dialogue
  BY <1>1, <1>2, <1>5 DEF Dialogue
<1>7. \A k \in Message : mail'[k].verdict = "none" <=> mail[k].verdict = "none"
  BY <1>1, <1>2, <1>3
<1> QED BY <1>6, <1>7 DEF Numbered

\* message_end answers the message or goes on.
LEMMA EndTells ==
  ASSUME Delivery, Numbered, EndOfBody \/ EndGoesOn
  PROVE  Numbered' /\ Dialogue
<1>1. PICK o : Answers(o) /\ o.sess.n = sess.n
  <2>1. sess \in Session /\ be \in QmailState
    BY DeliveryHolds
  <2>2. CASE EndOfBody
    <3>1. PICK answers \in Chains : \E o \in handle_message_end(sess, be, answers) : Answers(o)
      BY <2>2 DEF EndOfBody
    <3>2. PICK o \in handle_message_end(sess, be, answers) : Answers(o)
      BY <3>1
    <3>3. response_ok(sess.dresp) => be.epipe \in Message
      BY <2>2, BodyUnderWay DEF EndOfBody, BodyIsFed
    <3>4. o.sess.n = sess.n
      BY <2>1, <3>2, <3>3, MessageEndHandled
    <3> QED BY <3>2, <3>4
  <2>3. CASE EndGoesOn
    <3>1. PICK o \in handle_message_end_goes_on(sess, be) : Answers(o)
      BY <2>3 DEF EndGoesOn
    <3>2. o.sess.n = sess.n
      BY <2>1, <3>1, EndGoesOnHandled
    <3> QED BY <3>1, <3>2
  <2> QED BY <2>2, <2>3
<1>2. sess'.n = sess.n
  BY <1>1 DEF Answers, Becomes
<1>3. pc \in {"body", "ending"}
  BY DEF EndOfBody, EndGoesOn
<1>4. CASE o.resp = "busy"
  BY <1>1, <1>2, <1>4 DEF Answers, Numbered, Dialogue, SameVerdicts
<1>5. CASE o.resp # "busy"
  <2> DEFINE v == IF response_ok(o.resp) THEN "ack" ELSE "nak"
  <2>1. mail' = Settled(mail, sess.n, v)
    <3>1. mail' = [mail EXCEPT ![sess.n].verdict = v]
      BY <1>1, <1>5 DEF Answers
    <3> QED BY <3>1 DEF Settled, Told
  <2>2. v \in {"ack", "nak"}
    OBVIOUS
  <2> HIDE DEF v
  <2> QED BY <1>2, <1>3, <2>1, <2>2, SettlingTells
<1> QED BY <1>4, <1>5

\* The session ends, between messages or within one.
LEMMA ExitTells ==
  ASSUME Delivery, Numbered, ResetFails \/ Leave \/ Alarm
  PROVE  Numbered' /\ Dialogue
<1>1. PICK o : o.sess \in Session /\ o.sess.n = sess.n /\ o.be \in QmailState /\ Exits(o)
  <2>1. CASE ResetFails
    <3>1. PICK answers \in Chains : Exits(handle_reset(sess, be, answers))
      BY <2>1 DEF ResetFails
    <3> QED BY <3>1, DeliveryHolds, ResetCloses
  <2>2. CASE Leave \/ Alarm
    <3> DEFINE o == Outcome(sess, be, "none")
    <3>1. o.sess = sess /\ o.be = be /\ Exits(o)
      BY <2>2 DEF Leave, Alarm, Outcome
    <3> QED BY <3>1, DeliveryHolds
  <2> QED BY <2>1, <2>2
<1>2. sess'.n = sess.n
  <2>1. exitfn(o.sess, o.be).sess.n = o.sess.n
    BY <1>1, ResetCloses DEF exitfn
  <2> QED BY <1>1, <2>1 DEF Exits, Becomes
<1>3. (mail' = mail /\ pc = "command") \/ (mail' = MailCut /\ pc # "closed")
  BY DEF ResetFails, Leave, Alarm
<1>4. CASE mail' = mail
  BY <1>2, <1>4 DEF Numbered, Dialogue, SameVerdicts
<1>5. CASE mail' # mail
  <2> DEFINE v == IF pc = "ending" THEN "unknown" ELSE "cut"
  <2>1. pc \in {"body", "block", "ending"} /\ mail' = Settled(mail, sess.n, v)
    BY <1>3, <1>5, DeliveryHolds DEF MailCut, Settled, Told
  <2>2. v \in {"unknown", "cut"} /\ (v = "cut" => pc # "ending")
    OBVIOUS
  <2> HIDE DEF v
  <2> QED BY <1>2, <2>1, <2>2, SettlingTells
<1> QED BY <1>4, <1>5

\* A process's step stores its message, if that is open or its fate unknown, or none.
LEMMA QmailQueueImplements ==
  ASSUME Delivery, Numbered, NEW k \in Message, QmailQueueProceeds(k) \/ QmailQueueFails(k)
  PROVE  Numbered' /\ [Promise!Next]_(Promise!vars)
<1> DEFINE p == be.qq[k]
<1>1. PICK r \in Proceeds(p) \cup Fails(p) : be' = [be EXCEPT !.qq[k] = r]
  BY DEF QmailQueueProceeds, QmailQueueFails, Moves
<1>2. p.st = "run" /\ sess' = sess /\ mail' = mail
  BY DEF QmailQueueProceeds, QmailQueueFails, Moves
<1>3. /\ be \in QmailState /\ be.qq \in [Message -> QmailQueue] /\ p \in QmailQueue
      /\ ProcessHolds(p, mail[k]) /\ NoneAfter(sess.n, be.qq)
  BY DeliveryHolds DEF ProcessesHold
<1>4. /\ r \in QmailQueue
      /\ p.queued => r.queued
      /\ r.queued /\ ~ p.queued => ~ Barred(p)
  BY <1>2, <1>3, ProcessGoesOn DEF ProcessHolds
<1>5. be'.qq = [be.qq EXCEPT ![k] = r]
  BY <1>1, <1>3 DEF QmailState
<1>6. \A j \in Message : be'.qq[j].queued = IF j = k THEN r.queued ELSE be.qq[j].queued
  BY <1>3, <1>5
<1>7. CASE r.queued = p.queued
  <2>1. {j \in Message : be'.qq[j].queued} = {j \in Message : be.qq[j].queued}
    BY <1>6, <1>7
  <2> QED BY <1>2, <2>1 DEF Promise!vars, Numbered
<1>8. CASE r.queued # p.queued
  <2>1. ~ p.queued /\ r.queued /\ ~ Barred(p)
    <3>1. r.queued \in BOOLEAN /\ p.queued \in BOOLEAN
      BY <1>3, <1>4 DEF QmailQueue
    <3> QED BY <1>4, <1>8, <3>1
  <2>2. mail[k].verdict \notin {"ack", "nak", "cut"}
    BY <1>3, <2>1 DEF ProcessHolds
  <2>3. mail[k].verdict # "none"
    <3>1. p.env # <<>>
      BY <2>1 DEF Barred, Complete
    <3> QED BY <1>3, <3>1 DEF Numbered, NoneAfter
  <2>4. mail[k].verdict \in {"open", "unknown"}
    BY <2>2, <2>3, DeliveryHolds DEF Mail, Verdict
  <2>5. {j \in Message : be'.qq[j].queued} = {j \in Message : be.qq[j].queued} \cup {k}
    BY <1>6, <2>1
  <2>6. Promise!Store(k)
    BY <1>2, <2>4, <2>5 DEF Promise!Store
  <2> QED BY <1>2, <2>6 DEF Promise!Next, Numbered
<1> QED BY <1>7, <1>8

\* Every step is one of Submission's or changes nothing of it.
LEMMA NextImplements ==
  ASSUME Delivery, Numbered, [Next]_vars
  PROVE  Numbered' /\ [Promise!Next]_(Promise!vars)
<1>1. CASE HELO \/ RSET
  BY <1>1, ResetDelivers, NothingTold, DialogueImplements DEF Dialogue
<1>2. CASE ResetFails \/ Leave \/ Alarm
  BY <1>2, ExitDelivers, ExitTells, DialogueImplements
<1>3. ASSUME NEW a \in Address, MAIL(a)
      PROVE  Numbered' /\ [Promise!Next]_(Promise!vars)
  BY <1>3, MailDelivers, NothingTold, DialogueImplements DEF Dialogue
<1>4. ASSUME NEW a \in Address, RCPT(a)
      PROVE  Numbered' /\ [Promise!Next]_(Promise!vars)
  BY <1>4, RcptDelivers, NothingTold, DialogueImplements DEF Dialogue
<1>5. CASE DATA
  BY <1>5, DataDelivers, DataTells, DialogueImplements
<1>6. CASE BlockArrives
  BY <1>6, BlockArrivesDelivers, NothingTold, DialogueImplements DEF Dialogue
<1>7. CASE BlockHandled
  BY <1>7, BlockHandledDelivers, NothingTold, DialogueImplements DEF Dialogue
<1>8. CASE EndOfBody
  BY <1>8, EndOfBodyDelivers, EndTells, DialogueImplements
<1>9. CASE EndGoesOn
  BY <1>9, EndGoesOnDelivers, EndTells, DialogueImplements
<1>10. ASSUME NEW k \in Message, QmailQueueProceeds(k) \/ QmailQueueFails(k)
       PROVE  Numbered' /\ [Promise!Next]_(Promise!vars)
  BY <1>10, QmailQueueImplements
<1>11. CASE UNCHANGED vars
  BY <1>11 DEF vars, Numbered, Promise!vars
<1> QED BY <1>1, <1>2, <1>3, <1>4, <1>5, <1>6, <1>7, <1>8, <1>9, <1>10, <1>11
        DEF Next, SmtpNext

\* A new session is a new one of Submission's.
LEMMA InitImplements ==
  ASSUME Init
  PROVE  Numbered /\ Promise!Init
<1>1. PICK need \in NeedsFile : sess = NewSession(need)
  BY DEF Init, SmtpInit
<1>2. be = QmailInit /\ mail = [n \in Number |-> NoMail]
  BY DEF Init, SmtpInit
<1>3. \A k \in Message : mail[k].verdict = "none" /\ ~ be.qq[k].queued
  BY <1>2, Parameters DEF QmailInit, NoProcess, NoMail
<1>4. Numbered
  BY <1>1, <1>3 DEF Numbered, NewSession, Message
<1> QED BY <1>3, <1>4 DEF Promise!Init

(***************************************************************************)
(* The SMTP session and its processes keep the promise of Submission,      *)
(* whatever fails: what the client is told of a message is true of the     *)
(* queue and stays so, and a message is queued only while it is open or    *)
(* its client is gone.                                                     *)
(***************************************************************************)
THEOREM Implementation == Spec => ImplementsSubmission
<1>1. Init => Delivery /\ Numbered /\ Promise!Init
  BY InitDelivers, InitImplements
<1>2. Delivery /\ Numbered /\ [Next]_vars
        => Delivery' /\ Numbered' /\ [Promise!Next]_(Promise!vars)
  BY NextDelivers, NextImplements
<1>3. Spec => Promise!Init /\ [][Promise!Next]_(Promise!vars)
  BY <1>1, <1>2, PTL DEF Spec
<1> QED BY <1>3 DEF ImplementsSubmission, Promise!Spec

=============================================================================
