-------------------------- MODULE QmtpQueuedir_proof --------------------------
(***************************************************************************)
(* A QMTP or QMQP session over the queue directory, for any plugins,       *)
(* addresses, packages, failing calls and moments of a kill or a power     *)
(* failure.                                                                *)
(***************************************************************************)
EXTENDS QmtpQueuedir, Queuedir_proof, Responses_proof

-----------------------------------------------------------------------------
(* The invariant, at point p of a session with the protocol's response r,  *)
(* the container's state s, the backend's b and the history m              *)

\* What the file of each message may hold.
Bodies(m) == [k \in Number |-> {WithBody(m[k].offer, j) : j \in 0 .. m[k].blocks}]

\* The message whose file is linked and not yet answered.
Now(p, s, b) == IF p = "ending" /\ Linking(b) THEN s.n ELSE 0

\* The blocks that were handed on.
Handed(p, s, m) == IF p = "block" THEN m[s.n].blocks - 1 ELSE m[s.n].blocks

\* No message was started beyond s.n.
Fresh(s, m) == \A k \in Number : k > s.n => m[k].verdict = "none"

\* The message of this package has no verdict, and the backend knows it.
Arriving(s, b, m) == s.n \in Number /\ m[s.n].verdict = "open" /\ b.n = s.n

Places == {"start", "package", "body", "block", "recips", "ending", "closed"}

(***************************************************************************)
(* While a body comes no file is named, and the scratch file never has     *)
(* more of it than the client sent.  Once the sender is accepted the file  *)
(* holds the envelope as it was accepted so far.  After an error neither   *)
(* matters, since no handler is called before the package is answered and  *)
(* the next begins with a reset.                                           *)
(***************************************************************************)
Holds(p, r, s, b, m) ==
  /\ p \in Places /\ r \in Response /\ s \in Session /\ m \in [Number -> Mail]
  /\ Directory(b) /\ Files(b, m, Bodies(m), Now(p, s, b)) /\ Fresh(s, m)
  /\ p # "closed" => Live(b)
  /\ p = "closed" /\ b.fate = "up" => b.tmp = {}
  /\ p \notin {"ending", "closed"} => b.phase = "idle"
  /\ p \in {"package", "body", "block"} => ~ b.tlen /\ ~ b.dlen
  /\ p = "block" => response_ok(r) /\ m[s.n].blocks > 0
  /\ p \in {"body", "block", "recips"} /\ response_ok(r) =>
       Arriving(s, b, m) /\ b.blocks <= Handed(p, s, m)
  /\ p \in {"body", "block"} /\ response_ok(r) => m[s.n].offer = NoOffer
  /\ p = "recips" /\ response_ok(r) => Writes(b, {Envelope(m[s.n].offer)})
  /\ p = "ending" => /\ Arriving(s, b, m) /\ b.phase # "idle"
                     /\ EndIsSafe(b, Bodies(m))

Inductive == Holds(pc, resp, sess, be, mail)

-----------------------------------------------------------------------------
(* The handlers                                                            *)

\* What the parameters' assumption gives.
LEMMA Parameters ==
  /\ MaxMessages \in Nat /\ Number = Message /\ 0 \notin Number
  /\ \A answers \in Chains : answers \in Seq(Response)
  BY QmtpQueuedirAssumption DEF QmtpParameters, Number, Message

\* The container's state when the file it keeps is closed.
LEMMA CloseFileType ==
  ASSUME NEW s \in Session
  PROVE  CloseFile(s) \in Session /\ CloseFile(s).n = s.n /\ CloseFile(s).dresp = s.dresp
  BY DEF CloseFile, Session

\* What the chain answers, when it had nothing before or the backend's acceptance.
LEMMA ChainType ==
  ASSUME NEW answers \in Seq(Response)
  PROVE  /\ MODULE_CALL("none", answers) \in Response
         /\ \A r \in {"none", "temp"} : MODULE_CALL(r, answers) \in Response
  BY ModuleCallType DEF Response

\* Every reset of the container resets the backend, whatever the plugins answer.
LEMMA ResetHandled ==
  ASSUME NEW s \in Session, NEW b, NEW answers \in Seq(Response)
  PROVE  LET o == handle_reset(s, b, answers)
         IN  /\ o.sess \in Session /\ o.sess.n = s.n /\ o.be = queuedir_reset(b)
             /\ o.resp \in Response
<1> DEFINE reply == MODULE_CALL("none", answers)
<1>1. reply \in Response
  BY ChainType
<1>2. handle_reset(s, b, answers) = Outcome(CloseFile(s), queuedir_reset(b), reply)
  BY DEF handle_reset
<1> HIDE DEF reply
<1> QED BY <1>1, <1>2, CloseFileType DEF Outcome

\* So do the resets on the way out of a handler, and out of the program.
LEMMA ExitHandled ==
  ASSUME NEW s \in Session, NEW b, NEW r
  PROVE  /\ LET o == ResetAnd(s, b, r)
            IN  o.sess \in Session /\ o.sess.n = s.n /\ o.be = queuedir_reset(b) /\ o.resp = r
         /\ LET o == exitfn(s, b)
            IN  o.sess \in Session /\ o.sess.n = s.n /\ o.be = queuedir_reset(b)
  BY CloseFileType DEF ResetAnd, exitfn, Outcome

\* A sender is accepted when the chain and the backend accept it.
LEMMA SenderHandled ==
  ASSUME NEW s, NEW b, NEW a, NEW answers \in Seq(Response),
         NEW o \in handle_sender(s, b, a, answers)
  PROVE  /\ o.sess = s /\ o.resp \in Response
         /\ \/ o.be = b /\ ~ response_ok(o.resp)
            \/ \E p \in queuedir_sender(b, a) :
                 o.be = p.be /\ (response_ok(o.resp) <=> response_ok(p.resp))
<1> DEFINE reply == MODULE_CALL("none", answers)
<1>1. reply \in Response
  BY ChainType
<1>2. CASE o = Outcome(s, b, "perm")
  BY <1>2 DEF Outcome, response_ok, Response
<1>3. CASE ~ response_ok(reply) /\ o = Outcome(s, b, reply)
  <2> HIDE DEF reply
  <2> QED BY <1>1, <1>3 DEF Outcome
<1>4. CASE response_ok(reply) /\ \E p \in queuedir_sender(b, a) :
             o = Outcome(s, p.be, IF response_ok(p.resp) THEN reply ELSE p.resp)
  <2> HIDE DEF reply
  <2> QED BY <1>1, <1>4 DEF Outcome, response_ok, Response
<1> QED BY <1>2, <1>3, <1>4 DEF handle_sender

\* So is a recipient.
LEMMA RecipientHandled ==
  ASSUME NEW s, NEW b, NEW a, NEW answers \in Seq(Response),
         NEW o \in handle_recipient(s, b, a, answers)
  PROVE  /\ o.sess = s /\ o.resp \in Response
         /\ \/ o.be = b /\ ~ response_ok(o.resp)
            \/ \E p \in queuedir_recipient(b, a) :
                 o.be = p.be /\ (response_ok(o.resp) <=> response_ok(p.resp))
<1> DEFINE reply == MODULE_CALL("none", answers)
<1>1. reply \in Response
  BY ChainType
<1>2. CASE o = Outcome(s, b, "perm")
  BY <1>2 DEF Outcome, response_ok, Response
<1>3. CASE ~ response_ok(reply) /\ o = Outcome(s, b, reply)
  <2> HIDE DEF reply
  <2> QED BY <1>1, <1>3 DEF Outcome
<1>4. CASE response_ok(reply) /\ \E p \in queuedir_recipient(b, a) :
             o = Outcome(s, p.be, IF response_ok(p.resp) THEN reply ELSE p.resp)
  <2> HIDE DEF reply
  <2> QED BY <1>1, <1>4 DEF Outcome, response_ok, Response
<1> QED BY <1>2, <1>3, <1>4 DEF handle_recipient

(***************************************************************************)
(* A message is started when the backend and the chain accept it; when     *)
(* either does not, it is reset, unless no scratch file could be made.     *)
(***************************************************************************)
LEMMA DataStartHandled ==
  ASSUME NEW s \in Session, s.n < MaxMessages, NEW b, NEW answers \in Seq(Response),
         NEW o \in handle_data_start(s, b, answers)
  PROVE  /\ o.sess \in Session /\ o.sess.n = s.n + 1 /\ o.resp \in Response
         /\ \/ o.be = b /\ ~ response_ok(o.resp)
            \/ \E fd : \E p \in queuedir_data_start(b, fd, s.n + 1) :
                 \/ o.be = queuedir_reset(p.be) /\ ~ response_ok(o.resp)
                 \/ o.be = p.be /\ response_ok(o.resp) /\ response_ok(p.resp)
<1> DEFINE t      == [CloseFile(s) EXCEPT !.n = @ + 1]
           opened == [t EXCEPT !.fd = t.need, !.dresp = "none"]
           reply(p) == MODULE_CALL(p.resp, answers)
           then(p) == IF ~ response_ok(p.resp)
                      THEN ResetAnd([opened EXCEPT !.dresp = p.resp], p.be, p.resp)
                      ELSE IF ~ response_ok(reply(p)) THEN ResetAnd(opened, p.be, reply(p))
                      ELSE Outcome(opened, p.be, reply(p))
<1>1. t \in Session /\ t.n = s.n + 1
  <2> DEFINE c == CloseFile(s)
  <2>1. c \in Session /\ c.n = s.n
    BY CloseFileType
  <2> HIDE DEF c
  <2>2. s.n + 1 \in 0 .. MaxMessages
    BY QmtpQueuedirAssumption DEF Session, QmtpParameters
  <2>3. [c EXCEPT !.n = c.n + 1] \in Session /\ [c EXCEPT !.n = c.n + 1].n = c.n + 1
    BY <2>1, <2>2 DEF Session
  <2> QED BY <2>1, <2>3 DEF c
<1> HIDE DEF t
<1>2. opened \in Session /\ opened.n = s.n + 1
  BY <1>1 DEF Session
<1> HIDE DEF opened
<1>3. CASE o = Outcome(t, b, "temp")
  BY <1>1, <1>3 DEF Outcome, response_ok, Response
<1>4. ASSUME NEW p \in queuedir_data_start(b, opened.fd, opened.n), o = then(p),
             p.resp \in {"none", "temp"}
      PROVE  /\ o.sess \in Session /\ o.sess.n = s.n + 1 /\ o.resp \in Response
             /\ \/ o.be = queuedir_reset(p.be) /\ ~ response_ok(o.resp)
                \/ o.be = p.be /\ response_ok(o.resp) /\ response_ok(p.resp)
  <2>1. response_ok("none") /\ ~ response_ok("temp") /\ "temp" \in Response
    BY DEF response_ok, Response
  <2>2. CASE p.resp = "temp"
    <3> DEFINE u == [opened EXCEPT !.dresp = "temp"]
    <3>1. u \in Session /\ u.n = s.n + 1
      BY <1>2 DEF Session
    <3>2. o = ResetAnd(u, p.be, "temp")
      BY <1>4, <2>1, <2>2
    <3> HIDE DEF u
    <3> QED BY <2>1, <3>1, <3>2, ExitHandled
  <2>3. reply(p) \in Response
    BY <1>4, ChainType
  <2>4. CASE p.resp = "none" /\ ~ response_ok(reply(p))
    <3>1. o = ResetAnd(opened, p.be, reply(p))
      BY <1>4, <2>1, <2>4
    <3> HIDE DEF reply
    <3> QED BY <1>2, <2>3, <2>4, <3>1, ExitHandled
  <2>5. CASE p.resp = "none" /\ response_ok(reply(p))
    <3>1. o = Outcome(opened, p.be, reply(p))
      BY <1>4, <2>1, <2>5
    <3> HIDE DEF reply
    <3> QED BY <1>2, <2>1, <2>3, <2>5, <3>1 DEF Outcome
  <2> QED BY <1>4, <2>2, <2>4, <2>5
<1>5. \A p \in queuedir_data_start(b, opened.fd, opened.n) : p.resp \in {"none", "temp"}
  BY DEF queuedir_data_start, Puts, MayFail, Returns
<1>6. o = Outcome(t, b, "temp")
      \/ \E p \in queuedir_data_start(b, opened.fd, opened.n) : o = then(p)
  BY DEF handle_data_start, t, opened
<1> HIDE DEF then
<1> QED BY <1>2, <1>3, <1>4, <1>5, <1>6

\* A block goes to the backend, until an error is met, which resets the message.
LEMMA DataBytesHandled ==
  ASSUME NEW s \in Session, NEW b, NEW answers \in Seq(Response),
         NEW o \in handle_data_bytes(s, b, answers)
  PROVE  /\ o.sess \in Session /\ o.sess.n = s.n
         /\ \/ o.be = b
            \/ o.be = queuedir_reset(b)
            \/ \E p \in queuedir_data_block(b) : o.be \in {p.be, queuedir_reset(p.be)}
<1> DEFINE reply == FirstError(answers)
<1>1. CASE ~ response_ok(s.dresp) /\ o = Outcome(s, b, "none")
  BY <1>1 DEF Outcome
<1>2. CASE ~ response_ok(reply) /\ o = ResetAnd([s EXCEPT !.dresp = reply], b, "none")
  <2>1. reply \in {"temp", "perm"}
    BY <1>2, FirstErrorType DEF response_ok, Response
  <2> HIDE DEF reply
  <2> DEFINE u == [s EXCEPT !.dresp = reply]
  <2>2. u \in Session /\ u.n = s.n
    BY <2>1 DEF Session
  <2>3. o = ResetAnd(u, b, "none")
    BY <1>2
  <2> HIDE DEF u
  <2> QED BY <2>2, <2>3, ExitHandled
<1>3. ASSUME NEW p \in queuedir_data_block(b),
             \/ o = Outcome(s, p.be, "none")
             \/ o = Outcome([s EXCEPT !.file = @ + 1], p.be, "none")
             \/ o = ResetAnd([s EXCEPT !.dresp = "temp"], p.be, "none")
      PROVE  /\ o.sess \in Session /\ o.sess.n = s.n
             /\ o.be \in {p.be, queuedir_reset(p.be)}
  <2>1. CASE o = Outcome(s, p.be, "none")
    BY <2>1 DEF Outcome
  <2>2. CASE o = Outcome([s EXCEPT !.file = @ + 1], p.be, "none")
    <3> DEFINE u == [s EXCEPT !.file = @ + 1]
    <3>1. u \in Session /\ u.n = s.n
      BY DEF Session
    <3>2. o = Outcome(u, p.be, "none")
      BY <2>2
    <3> HIDE DEF u
    <3> QED BY <3>1, <3>2 DEF Outcome
  <2>3. CASE o = ResetAnd([s EXCEPT !.dresp = "temp"], p.be, "none")
    <3> DEFINE u == [s EXCEPT !.dresp = "temp"]
    <3>1. u \in Session /\ u.n = s.n
      BY DEF Session
    <3>2. o = ResetAnd(u, p.be, "none")
      BY <2>3
    <3> HIDE DEF u
    <3> QED BY <3>1, <3>2, ExitHandled
  <2> QED BY <1>3, <2>1, <2>2, <2>3
<1>4. \/ ~ response_ok(s.dresp) /\ o = Outcome(s, b, "none")
      \/ ~ response_ok(reply) /\ o = ResetAnd([s EXCEPT !.dresp = reply], b, "none")
      \/ \E p \in queuedir_data_block(b) :
           \/ o = Outcome(s, p.be, "none")
           \/ o = Outcome([s EXCEPT !.file = @ + 1], p.be, "none")
           \/ o = ResetAnd([s EXCEPT !.dresp = "temp"], p.be, "none")
  BY DEF handle_data_bytes
<1> QED BY <1>1, <1>2, <1>3, <1>4

\* The backend's answer ends the message, and an error resets it, unless it goes on.
LEMMA Ended ==
  ASSUME NEW s \in Session, NEW b, NEW r \in {"busy", "none", "temp"}
  PROVE  LET o == MessageEnded(s, b, r)
         IN  /\ o.sess \in Session /\ o.sess.n = s.n /\ o.resp = r
             /\ o.be = IF response_ok(r) THEN b ELSE queuedir_reset(b)
  BY CloseFileType DEF MessageEnded, ResetAnd, Outcome, response_ok

(***************************************************************************)
(* The end of a message: an error met before answers it, and one of the    *)
(* chain resets it and answers it, before the backend is asked.            *)
(***************************************************************************)
LEMMA MessageEndHandled ==
  ASSUME NEW s \in Session, NEW b, NEW answers \in Seq(Response),
         NEW o \in handle_message_end(s, b, answers)
  PROVE  /\ o.sess \in Session /\ o.sess.n = s.n
         /\ \/ /\ o.be \in {b, queuedir_reset(b)}
               /\ ~ response_ok(o.resp) /\ o.resp \in Response
            \/ \E p \in queuedir_message_end(b, s.fd, s.file) :
                 /\ o.resp = p.resp
                 /\ o.be = IF response_ok(p.resp) THEN p.be ELSE queuedir_reset(p.be)
<1> DEFINE reply == MODULE_CALL("none", answers)
<1>1. CASE ~ response_ok(s.dresp) /\ o = Outcome(s, b, s.dresp)
  BY <1>1 DEF Outcome, Session, Response
<1>2. CASE ~ response_ok(reply) /\ o = ResetAnd(s, b, reply)
  <2>1. reply \in Response
    BY ChainType
  <2> HIDE DEF reply
  <2> QED BY <1>2, <2>1, ExitHandled
<1>3. ASSUME NEW p \in queuedir_message_end(b, s.fd, s.file), o = MessageEnded(s, p.be, p.resp)
      PROVE  /\ o.sess \in Session /\ o.sess.n = s.n /\ o.resp = p.resp
             /\ o.be = IF response_ok(p.resp) THEN p.be ELSE queuedir_reset(p.be)
  <2>1. p.resp \in {"busy", "none", "temp"}
    BY DEF queuedir_message_end, Step, Puts, MayFail, Returns, response_ok
  <2> QED BY <1>3, <2>1, Ended
<1> QED BY <1>1, <1>2, <1>3 DEF handle_message_end

-----------------------------------------------------------------------------
(* What an action has to show                                              *)

\* Between packages.
LEMMA StartHolds ==
  ASSUME NEW r \in Response, NEW s \in Session, NEW b, NEW m \in [Number -> Mail],
         Directory(b), Live(b), b.phase = "idle", Files(b, m, Bodies(m), 0), Fresh(s, m)
  PROVE  Holds("start", r, s, b, m)
  BY DEF Holds, Places, Now

\* After the end.
LEMMA ClosedHolds ==
  ASSUME NEW r \in Response, NEW s \in Session, NEW b, NEW m \in [Number -> Mail],
         Directory(b), b.fate = "up" => b.tmp = {}, Files(b, m, Bodies(m), 0), Fresh(s, m)
  PROVE  Holds("closed", r, s, b, m)
  BY DEF Holds, Places, Now

\* While a body comes.
LEMMA BodyHolds ==
  ASSUME NEW p \in {"package", "body", "block"},
         NEW r \in Response, NEW s \in Session, NEW b, NEW m \in [Number -> Mail],
         Directory(b), Live(b), b.phase = "idle", Files(b, m, Bodies(m), 0), Fresh(s, m),
         ~ b.tlen, ~ b.dlen, p = "block" => response_ok(r) /\ m[s.n].blocks > 0,
         p \in {"body", "block"} /\ response_ok(r) =>
           /\ Arriving(s, b, m) /\ b.blocks <= Handed(p, s, m)
           /\ m[s.n].offer = NoOffer
  PROVE  Holds(p, r, s, b, m)
  BY DEF Holds, Places, Now

\* While the envelope comes.
LEMMA RecipsHolds ==
  ASSUME NEW r \in Response, NEW s \in Session, NEW b, NEW m \in [Number -> Mail],
         Directory(b), Live(b), b.phase = "idle", Files(b, m, Bodies(m), 0), Fresh(s, m),
         response_ok(r) => /\ Arriving(s, b, m) /\ b.blocks <= m[s.n].blocks
                           /\ Writes(b, {Envelope(m[s.n].offer)})
  PROVE  Holds("recips", r, s, b, m)
  BY DEF Holds, Places, Now, Handed

\* What the invariant says while the session lasts.
LEMMA WhileOpen ==
  ASSUME Inductive, pc # "closed"
  PROVE  /\ resp \in Response /\ sess \in Session /\ mail \in [Number -> Mail]
         /\ be \in QueuedirState /\ Directory(be) /\ Live(be) /\ Fresh(sess, mail)
         /\ Files(be, mail, Bodies(mail), Now(pc, sess, be))
         /\ Current(be, mail, Now(pc, sess, be))
         /\ Now(pc, sess, be) # 0 => /\ Now(pc, sess, be) = sess.n /\ sess.n \in Number
                                     /\ mail[sess.n].verdict = "open" /\ pc = "ending"
         /\ pc # "ending" => Now(pc, sess, be) = 0 /\ ~ Linking(be) /\ be.phase = "idle"
  BY DEF Inductive, Holds, Places, Directory, Now, Current, Arriving, Linking

\* A reset then leaves nothing of the message that is not answered.
LEMMA ResetIsClear ==
  ASSUME Inductive, pc # "closed"
  PROVE  LET c == queuedir_reset(be)
         IN  /\ Clear(c, mail, Bodies(mail), Now(pc, sess, be))
             /\ c.n = be.n /\ c.blocks = be.blocks /\ c \in QueuedirState
<1>1. LET c == queuedir_reset(be)
      IN  Clear(c, mail, Bodies(mail), Now(pc, sess, be)) /\ c.n = be.n
  BY WhileOpen, ResetWorks
<1>2. LET c == queuedir_reset(be)
      IN  c.blocks = be.blocks /\ c \in QueuedirState
  BY WhileOpen, ResetOutcome
<1> QED BY <1>1, <1>2

\* What a hook leaves alone before a message is linked may be reset.
LEMMA LeftOrReset ==
  ASSUME Inductive, pc \notin {"ending", "closed"}, NEW c, Leaves(be, c), c.phase = be.phase
  PROVE  /\ Directory(c) /\ Live(c) /\ c.phase = "idle" /\ c \in QueuedirState
         /\ Files(c, mail, Bodies(mail), 0)
         /\ LET d == queuedir_reset(c)
            IN  Clear(d, mail, Bodies(mail), 0) /\ d.n = c.n /\ d.blocks = c.blocks
<1>1. /\ Files(be, mail, Bodies(mail), 0) /\ be \in QueuedirState
      /\ Directory(be) /\ Live(be) /\ be.phase = "idle" /\ ~ Linking(be)
  BY WhileOpen
<1>2. ~ Linking(c) /\ c \in QueuedirState
  BY <1>1 DEF Linking, Leaves
<1>3. Directory(c) /\ Live(c)
  BY <1>1, <1>2, LeavesKeeps
<1>4. Files(c, mail, Bodies(mail), 0)
  BY <1>1, FilesStay DEF Leaves
<1>5. Current(c, mail, 0)
  BY <1>2 DEF Current
<1>6. LET d == queuedir_reset(c)
      IN  Clear(d, mail, Bodies(mail), 0) /\ d.n = c.n
  BY <1>3, <1>4, <1>5, ResetWorks
<1>7. LET d == queuedir_reset(c) IN d.blocks = c.blocks
  BY <1>2, ResetOutcome
<1> QED BY <1>1, <1>2, <1>3, <1>4, <1>6, <1>7

-----------------------------------------------------------------------------
(* The history                                                             *)

\* The history with verdict v on message n, if it stands open.
Told(m, n, v) ==
  [k \in Number |-> IF k = n /\ m[k].verdict = "open"
                    THEN [m[k] EXCEPT !.verdict = v] ELSE m[k]]

LEMMA ToldOutcome ==
  ASSUME NEW m \in [Number -> Mail], NEW n, NEW v \in Verdict
  PROVE  LET m2 == Told(m, n, v)
         IN  /\ m2 \in [Number -> Mail] /\ Bodies(m2) = Bodies(m)
             /\ \A k \in Number : k # n => m2[k] = m[k]
             /\ n \in Number /\ m[n].verdict = "open" => m2[n].verdict = v
             /\ ~ (n \in Number /\ m[n].verdict = "open") => m2 = m
<1> DEFINE m2 == Told(m, n, v)
           x(k) == [m[k] EXCEPT !.verdict = v]
<1>1. \A k \in Number : /\ x(k) \in Mail /\ x(k).verdict = v /\ x(k).offer = m[k].offer
                        /\ x(k).blocks = m[k].blocks
  BY DEF Mail
<1>2. m2 = [k \in Number |-> IF k = n /\ m[k].verdict = "open" THEN x(k) ELSE m[k]]
  BY DEF Told
<1> HIDE DEF x, m2
<1>3. m2 \in [Number -> Mail]
  BY <1>1, <1>2
<1>4. \A k \in Number : m2[k].offer = m[k].offer /\ m2[k].blocks = m[k].blocks
  BY <1>1, <1>2
<1>5. Bodies(m2) = Bodies(m)
  BY <1>4 DEF Bodies
<1>6. ~ (n \in Number /\ m[n].verdict = "open") => m2 = m
  BY <1>2
<1> QED BY <1>1, <1>2, <1>3, <1>5, <1>6 DEF m2

(***************************************************************************)
(* A package is answered, or the session ends, with the directory as it is *)
(* in c: now is the message that is linked, if one is.                     *)
(***************************************************************************)
LEMMA ToldSettles ==
  ASSUME NEW c \in QueuedirState, NEW m \in [Number -> Mail], NEW s \in Session, Fresh(s, m),
         NEW now \in {0, s.n}, Files(c, m, Bodies(m), now),
         now # 0 => s.n \in Number /\ m[s.n].verdict = "open",
         NEW v \in {"ack", "nak", "cut", "unknown"},
         v = "ack" => Lasting(c, s.n),
         v = "nak" => \A f \in c.new : f.of # now,
         v = "cut" => now = 0
  PROVE  LET m2 == Told(m, s.n, v)
         IN  m2 \in [Number -> Mail] /\ Fresh(s, m2) /\ Files(c, m2, Bodies(m2), 0)
<1>1. PICK n, m2 : n = s.n /\ m2 = Told(m, n, v)
  OBVIOUS
<1>2. /\ m2 \in [Number -> Mail] /\ Bodies(m2) = Bodies(m)
      /\ \A k \in Number : k # n => m2[k] = m[k]
      /\ n \in Number /\ m[n].verdict = "open" => m2[n].verdict = v
      /\ ~ (n \in Number /\ m[n].verdict = "open") => m2 = m
  <2>1. v \in Verdict
    BY DEF Verdict
  <2> QED BY <1>1, <2>1, ToldOutcome
<1>3. Fresh(s, m2)
  <2>1. ~ (n > n)
    BY <1>1 DEF Session
  <2> QED BY <1>1, <1>2, <2>1 DEF Fresh
<1>4. Files(c, m2, Bodies(m), 0)
  <2>1. CASE ~ (n \in Number /\ m[n].verdict = "open")
    BY <1>1, <1>2, <2>1
  <2>2. CASE n \in Number /\ m[n].verdict = "open"
    <3>1. n \in Message /\ \A k \in Message : k # n => m2[k].verdict = m[k].verdict
      BY <1>2, <2>2, Parameters
    <3>2. m2[n].verdict = v /\ n \in {n}
      BY <1>2, <2>2
    <3>3. CASE v = "cut"
      <4>1. Files(c, m, Bodies(m), 0) /\ m[n].verdict \notin {"ack", "nak", "unknown"}
            /\ m2[n].verdict # "ack"
        BY <2>2, <3>2, <3>3
      <4> QED BY <3>1, <4>1, FilesElsewhere
    <3>4. CASE v # "cut"
      <4>1. v = "nak" => \A f \in c.new : f.of # n
        <5>1. CASE now = 0
          <6>1. \A f \in c.new : f.of \in Message /\ f.of # 0 /\ f \in Stored(c)
            BY FilesAreOfMessages DEF Stored
          <6> QED BY <2>2, <5>1, <6>1 DEF Files
        <5> QED BY <1>1, <5>1
      <4> QED BY <1>1, <3>1, <3>2, <3>4, <4>1, FilesSettle
    <3> QED BY <3>3, <3>4
  <2> QED BY <2>1, <2>2
<1> QED BY <1>1, <1>2, <1>3, <1>4

\* A message that is not answered is started, or goes on: nothing of it is stored.
LEMMA MessageGoesOn ==
  ASSUME NEW b \in QueuedirState, NEW m \in [Number -> Mail], Files(b, m, Bodies(m), 0),
         NEW n \in Number, m[n].verdict \notin {"ack", "nak", "unknown"},
         NEW x \in Mail, x.verdict # "ack",
         NEW s \in Session, \A k \in Number : k > s.n => k # n /\ m[k].verdict = "none"
  PROVE  LET m2 == [m EXCEPT ![n] = x]
         IN  /\ m2 \in [Number -> Mail] /\ m2[n] = x /\ Fresh(s, m2)
             /\ Files(b, m2, Bodies(m2), 0)
<1> DEFINE m2 == [m EXCEPT ![n] = x]
<1>1. /\ m2 \in [Number -> Mail] /\ m2[n] = x
      /\ \A k \in Number : k # n => m2[k] = m[k]
  OBVIOUS
<1> HIDE DEF m2
<1>2. \A k \in Message : k # n => m2[k].verdict = m[k].verdict /\ Bodies(m2)[k] = Bodies(m)[k]
  BY <1>1, Parameters DEF Bodies
<1>3. n \in Message /\ m2[n].verdict # "ack"
  BY <1>1, Parameters
<1>4. Files(b, m2, Bodies(m2), 0)
  BY <1>2, <1>3, FilesElsewhere
<1>5. Fresh(s, m2)
  BY <1>1 DEF Fresh
<1> QED BY <1>1, <1>4, <1>5 DEF m2

-----------------------------------------------------------------------------
(* The actions                                                             *)

\* A package begins with a reset, whatever the one before has left.
LEMMA PackagePreserves ==
  ASSUME Inductive, Package
  PROVE  Inductive'
<1> DEFINE c == queuedir_reset(be)
<1>1. pc = "start" /\ pc' = "package" /\ mail' = mail
  BY DEF Package
<1>2. sess' \in Session /\ sess'.n = sess.n /\ be' = c /\ resp' \in Response
  <2>1. PICK answers \in Chains : LET o == handle_reset(sess, be, answers)
                                  IN  Becomes(o) /\ resp' = o.resp
    BY DEF Package
  <2> DEFINE o == handle_reset(sess, be, answers)
  <2>2. answers \in Seq(Response)
    BY Parameters
  <2>3. o.sess \in Session /\ o.sess.n = sess.n /\ o.be = c /\ o.resp \in Response
    BY <1>1, <2>2, WhileOpen, ResetHandled
  <2>4. sess' = o.sess /\ be' = o.be /\ resp' = o.resp
    BY <2>1 DEF Becomes
  <2> HIDE DEF o, c
  <2> QED BY <2>3, <2>4
<1>3. Clear(c, mail, Bodies(mail), 0)
  BY <1>1, WhileOpen, ResetIsClear
<1> HIDE DEF c
<1>4. Fresh(sess', mail) /\ mail \in [Number -> Mail]
  BY <1>1, <1>2, WhileOpen DEF Fresh
<1>5. Holds("package", resp', sess', c, mail)
  BY <1>2, <1>3, <1>4, BodyHolds DEF Clear
<1> QED BY <1>1, <1>2, <1>5 DEF Inductive

\* A body starts a message, unless the package is refused; then it is skipped.
LEMMA BodyStartsPreserves ==
  ASSUME Inductive, BodyStarts
  PROVE  Inductive'
<1> DEFINE n == sess.n + 1
           x == [NoMail EXCEPT !.verdict = "open"]
<1>1. /\ Files(be, mail, Bodies(mail), 0) /\ be \in QueuedirState
      /\ Directory(be) /\ Live(be) /\ be.phase = "idle"
      /\ sess \in Session /\ mail \in [Number -> Mail] /\ Fresh(sess, mail)
      /\ ~ be.tlen /\ ~ be.dlen /\ resp \in Response
  BY WhileOpen DEF BodyStarts, Inductive, Holds
<1>2. pc = "package" /\ pc' = "body"
  BY DEF BodyStarts
<1>3. CASE ~ response_ok(resp)
  <2>1. UNCHANGED <<resp, sess, be, mail>>
    BY <1>3 DEF BodyStarts
  <2>2. Holds("body", resp, sess, be, mail)
    BY <1>1, <1>3, BodyHolds
  <2> QED BY <1>2, <2>1, <2>2 DEF Inductive
<1>4. CASE response_ok(resp)
  <2>1. sess.n < MaxMessages
    BY <1>4 DEF BodyStarts
  <2>2. PICK answers \in Chains : \E o \in handle_data_start(sess, be, answers) :
          /\ Becomes(o) /\ resp' = o.resp
          /\ mail' = [mail EXCEPT ![o.sess.n] = x]
    BY <1>4 DEF BodyStarts
  <2>3. PICK o \in handle_data_start(sess, be, answers) :
          /\ sess' = o.sess /\ be' = o.be /\ resp' = o.resp
          /\ mail' = [mail EXCEPT ![o.sess.n] = x]
    BY <2>2 DEF Becomes
  <2>4. /\ o.sess \in Session /\ o.sess.n = n /\ o.resp \in Response
        /\ \/ o.be = be /\ ~ response_ok(o.resp)
           \/ \E fd : \E p \in queuedir_data_start(be, fd, n) :
                \/ o.be = queuedir_reset(p.be) /\ ~ response_ok(o.resp)
                \/ o.be = p.be /\ response_ok(o.resp) /\ response_ok(p.resp)
    <3>1. answers \in Seq(Response)
      BY Parameters
    <3> QED BY <1>1, <2>1, <3>1, DataStartHandled
  <2>5. x \in Mail /\ x.verdict = "open" /\ x.blocks = 0 /\ x.offer = NoOffer
    <3>1. x = [offer |-> NoOffer, blocks |-> 0, verdict |-> "open"]
      BY DEF NoMail
    <3>2. NoOffer \in Offer
      BY DEF NoOffer, Offer
    <3> QED BY <3>1, <3>2 DEF Mail, Verdict
  <2>6. /\ n \in Number /\ n \in Message
        /\ \A k \in Number : k > n => k # n /\ mail[k].verdict = "none"
        /\ mail[n].verdict = "none"
    <3>1. /\ sess.n \in Nat /\ n \in Number /\ n > sess.n
          /\ \A k \in Number : k > n => k > sess.n /\ k # n
      BY <1>1, <2>1, Parameters DEF Session, Number
    <3> QED BY <1>1, <3>1, Parameters DEF Fresh
  <2> HIDE DEF x, n
  <2>7. ASSUME NEW c \in QueuedirState, Files(c, mail, Bodies(mail), 0)
        PROVE  /\ mail' \in [Number -> Mail] /\ mail'[n] = x /\ Fresh(o.sess, mail')
               /\ Files(c, mail', Bodies(mail'), 0)
    BY <1>1, <2>3, <2>4, <2>5, <2>6, <2>7, MessageGoesOn
  <2>8. ASSUME NEW c, o.be = c, Directory(c), Live(c), c.phase = "idle", ~ c.tlen, ~ c.dlen,
               Files(c, mail, Bodies(mail), 0),
               response_ok(o.resp) => c.n = n /\ c.blocks = 0
        PROVE  Inductive'
    <3>1. /\ mail' \in [Number -> Mail] /\ mail'[n] = x /\ Fresh(o.sess, mail')
          /\ Files(c, mail', Bodies(mail'), 0)
      BY <2>7, <2>8 DEF Directory
    <3>2. response_ok(o.resp) => /\ Arriving(o.sess, c, mail')
                                 /\ c.blocks <= Handed("body", o.sess, mail')
                                 /\ mail'[o.sess.n].offer = NoOffer
      BY <2>4, <2>5, <2>6, <2>8, <3>1 DEF Arriving, Handed
    <3>3. Holds("body", o.resp, o.sess, c, mail')
      BY <2>4, <2>8, <3>1, <3>2, BodyHolds
    <3> QED BY <1>2, <2>3, <2>8, <3>3 DEF Inductive
  <2>9. CASE o.be = be /\ ~ response_ok(o.resp)
    BY <1>1, <2>8, <2>9
  <2>10. ASSUME NEW fd, NEW p \in queuedir_data_start(be, fd, n),
                \/ o.be = queuedir_reset(p.be) /\ ~ response_ok(o.resp)
                \/ o.be = p.be /\ response_ok(o.resp) /\ response_ok(p.resp)
         PROVE  Inductive'
    <3>1. /\ Leaves(be, p.be) /\ p.be.n = n /\ p.be.phase = be.phase
          /\ (p.resp = "none" /\ p.be.blocks = 0) \/ p.resp = "temp"
      BY <1>1, <2>6, DataStartOutcome
    <3>2. /\ Directory(p.be) /\ Live(p.be) /\ p.be.phase = "idle"
          /\ Files(p.be, mail, Bodies(mail), 0)
          /\ LET d == queuedir_reset(p.be) IN Clear(d, mail, Bodies(mail), 0)
      BY <1>2, <3>1, LeftOrReset
    <3>3. CASE o.be = queuedir_reset(p.be) /\ ~ response_ok(o.resp)
      <4> DEFINE d == queuedir_reset(p.be)
      <4>1. o.be = d /\ Clear(d, mail, Bodies(mail), 0)
        BY <3>2, <3>3
      <4> HIDE DEF d
      <4> QED BY <2>8, <3>3, <4>1 DEF Clear
    <3>4. CASE o.be = p.be /\ response_ok(o.resp) /\ response_ok(p.resp)
      <4>1. p.be.blocks = 0
        BY <3>1, <3>4 DEF response_ok
      <4>2. ~ p.be.tlen /\ ~ p.be.dlen
        BY <1>1, <3>1 DEF Leaves
      <4> QED BY <2>8, <3>1, <3>2, <3>4, <4>1, <4>2
    <3> QED BY <2>10, <3>3, <3>4
  <2> QED BY <2>4, <2>9, <2>10
<1> QED BY <1>3, <1>4

\* What the invariant says of a message whose package has met no error.
LEMMA WhileArriving ==
  ASSUME Inductive, pc \in {"body", "block", "recips"}, response_ok(resp)
  PROVE  /\ sess.n \in Number /\ sess.n \in Message
         /\ mail[sess.n] \in Mail /\ mail[sess.n].verdict = "open"
         /\ be.n = sess.n /\ be.blocks <= Handed(pc, sess, mail)
         /\ be.blocks \in Nat /\ mail[sess.n].blocks \in Nat
         /\ \A k \in Number : k > sess.n => k # sess.n /\ mail[k].verdict = "none"
<1>1. /\ Arriving(sess, be, mail) /\ be.blocks <= Handed(pc, sess, mail)
      /\ mail \in [Number -> Mail] /\ Fresh(sess, mail) /\ be \in QueuedirState
      /\ sess \in Session
  BY WhileOpen DEF Inductive, Holds
<1>2. sess.n \in Number /\ mail[sess.n] \in Mail
  BY <1>1 DEF Arriving
<1>3. \A k \in Number : k > sess.n => k # sess.n
  BY <1>1 DEF Session
<1> QED BY <1>1, <1>2, <1>3, Parameters DEF Arriving, Fresh, Mail, QueuedirState

\* A block has come, and is not handed on yet.
LEMMA BlockArrivesPreserves ==
  ASSUME Inductive, BlockArrives
  PROVE  Inductive'
<1> DEFINE n == sess.n
           x == [mail[n] EXCEPT !.blocks = @ + 1]
<1>1. /\ Files(be, mail, Bodies(mail), 0) /\ be \in QueuedirState
      /\ Directory(be) /\ Live(be) /\ be.phase = "idle"
      /\ sess \in Session /\ mail \in [Number -> Mail] /\ resp \in Response
      /\ ~ be.tlen /\ ~ be.dlen
  BY WhileOpen DEF BlockArrives, Inductive, Holds
<1>2. /\ pc = "body" /\ response_ok(resp) /\ pc' = "block"
      /\ mail' = [mail EXCEPT ![n] = x] /\ UNCHANGED <<resp, sess, be>>
  BY DEF BlockArrives
<1>3. /\ n \in Number /\ mail[n] \in Mail /\ mail[n].verdict = "open"
      /\ be.n = n /\ be.blocks <= mail[n].blocks
      /\ be.blocks \in Nat /\ mail[n].blocks \in Nat /\ mail[n].offer = NoOffer
      /\ \A k \in Number : k > n => k # n /\ mail[k].verdict = "none"
  BY <1>2, WhileArriving DEF Handed, Inductive, Holds
<1>4. /\ x \in Mail /\ x.offer = NoOffer /\ x.verdict = "open"
      /\ x.blocks = mail[n].blocks + 1
  BY <1>3 DEF Mail
<1> HIDE DEF x
<1>5. /\ mail' \in [Number -> Mail] /\ mail'[n] = x /\ Fresh(sess, mail')
      /\ Files(be, mail', Bodies(mail'), 0)
  BY <1>1, <1>2, <1>3, <1>4, MessageGoesOn, ZenonT(60)
<1>6. /\ Arriving(sess, be, mail') /\ be.blocks <= Handed("block", sess, mail')
      /\ mail'[n].offer = NoOffer /\ mail'[n].blocks > 0
  BY <1>3, <1>4, <1>5 DEF Arriving, Handed
<1>7. Holds("block", resp, sess, be, mail')
  BY <1>1, <1>2, <1>5, <1>6, BodyHolds
<1> QED BY <1>2, <1>7 DEF Inductive

\* The block is put in the scratch file, or not, or the message is reset.
LEMMA BlockHandledPreserves ==
  ASSUME Inductive, BlockHandled
  PROVE  Inductive'
<1> DEFINE n == sess.n
<1>1. /\ Files(be, mail, Bodies(mail), 0) /\ be \in QueuedirState
      /\ Directory(be) /\ Live(be) /\ be.phase = "idle"
      /\ sess \in Session /\ mail \in [Number -> Mail] /\ resp \in Response
      /\ ~ be.tlen /\ ~ be.dlen /\ response_ok(resp) /\ Fresh(sess, mail)
  BY WhileOpen DEF BlockHandled, Inductive, Holds
<1>2. pc = "block" /\ pc' = "body" /\ resp' = resp /\ mail' = mail
  BY DEF BlockHandled
<1>3. /\ n \in Number /\ mail[n].verdict = "open"
      /\ be.n = n /\ be.blocks <= mail[n].blocks - 1
      /\ be.blocks \in Nat /\ mail[n].blocks \in Nat /\ mail[n].offer = NoOffer
  BY <1>1, <1>2, WhileArriving DEF Handed, Inductive, Holds
<1>4. PICK answers \in Chains : \E o \in handle_data_bytes(sess, be, answers) : Becomes(o)
  BY DEF BlockHandled
<1>5. PICK o \in handle_data_bytes(sess, be, answers) : sess' = o.sess /\ be' = o.be
  BY <1>4 DEF Becomes
<1>6. /\ o.sess \in Session /\ o.sess.n = n
      /\ \/ o.be = be
         \/ o.be = queuedir_reset(be)
         \/ \E p \in queuedir_data_block(be) : o.be \in {p.be, queuedir_reset(p.be)}
  <2>1. answers \in Seq(Response)
    BY Parameters
  <2> QED BY <1>1, <2>1, DataBytesHandled
<1> HIDE DEF n
<1>7. ASSUME NEW c, o.be = c, Directory(c), Live(c), c.phase = "idle", ~ c.tlen, ~ c.dlen,
             c.n = be.n, c.blocks \in {be.blocks, be.blocks + 1},
             Files(c, mail, Bodies(mail), 0)
      PROVE  Inductive'
  <2>1. Fresh(o.sess, mail)
    BY <1>1, <1>6 DEF Fresh, n
  <2>2. c.blocks <= mail[n].blocks
    BY <1>3, <1>7
  <2>3. Arriving(o.sess, c, mail) /\ c.blocks <= Handed("body", o.sess, mail)
        /\ mail[o.sess.n].offer = NoOffer
    BY <1>3, <1>6, <1>7, <2>2 DEF Arriving, Handed
  <2>4. Holds("body", resp, o.sess, c, mail)
    BY <1>1, <1>6, <1>7, <2>1, <2>3, BodyHolds
  <2> QED BY <1>2, <1>5, <1>7, <2>4 DEF Inductive
<1>8. CASE o.be = be
  BY <1>1, <1>7, <1>8
<1>9. CASE o.be = queuedir_reset(be)
  <2> DEFINE c == queuedir_reset(be)
  <2>1. o.be = c /\ Clear(c, mail, Bodies(mail), 0) /\ c.n = be.n /\ c.blocks = be.blocks
    BY <1>2, <1>9, WhileOpen, ResetIsClear
  <2> HIDE DEF c
  <2> QED BY <1>7, <2>1 DEF Clear
<1>10. ASSUME NEW p \in queuedir_data_block(be), o.be \in {p.be, queuedir_reset(p.be)}
       PROVE  Inductive'
  <2>1. /\ Leaves(be, p.be) /\ p.be.n = be.n /\ p.be.phase = be.phase
        /\ p.be.blocks \in {be.blocks, be.blocks + 1}
    BY <1>1, DataBlockOutcome
  <2>2. /\ Directory(p.be) /\ Live(p.be) /\ p.be.phase = "idle"
        /\ Files(p.be, mail, Bodies(mail), 0)
        /\ LET d == queuedir_reset(p.be)
           IN  Clear(d, mail, Bodies(mail), 0) /\ d.n = p.be.n /\ d.blocks = p.be.blocks
    BY <1>2, <2>1, LeftOrReset
  <2>3. CASE o.be = p.be
    <3>1. ~ p.be.tlen /\ ~ p.be.dlen
      BY <1>1, <2>1 DEF Leaves
    <3> QED BY <1>7, <2>1, <2>2, <2>3, <3>1
  <2>4. CASE o.be = queuedir_reset(p.be)
    <3> DEFINE d == queuedir_reset(p.be)
    <3>1. o.be = d /\ Clear(d, mail, Bodies(mail), 0) /\ d.n = be.n
          /\ d.blocks \in {be.blocks, be.blocks + 1}
      BY <2>1, <2>2, <2>4
    <3> HIDE DEF d
    <3> QED BY <1>7, <3>1 DEF Clear
  <2> QED BY <1>10, <2>3, <2>4
<1> QED BY <1>6, <1>8, <1>9, <1>10

-----------------------------------------------------------------------------
(* The envelope                                                            *)

\* A message's offer with a sender, or with one more recipient.
LEMMA OfferGrows ==
  ASSUME NEW o \in Offer, NEW a \in Address
  PROVE  LET p == [o EXCEPT !.to = Append(@, a)]
         IN  p \in Offer /\ Envelope(p) = Envelope(o) \o <<To(a)>>
<1> DEFINE p == [o EXCEPT !.to = Append(@, a)]
<1>1. o.from \in {<<>>} \cup {<<x>> : x \in Address} /\ o.to \in Seq(Address)
  BY DEF Offer
<1>2. o.from \in Seq(Address)
  <2>1. CASE o.from = <<>>
    BY <2>1
  <2>2. ASSUME NEW x \in Address, o.from = <<x>>
        PROVE  o.from \in Seq(Address)
    BY <2>2
  <2> QED BY <1>1, <2>1, <2>2
<1>3. Append(o.to, a) \in Seq(Address)
  BY <1>1
<1>4. p = [o EXCEPT !.to = Append(o.to, a)]
  OBVIOUS
<1>5. p \in Offer /\ p.from = o.from /\ p.to = Append(o.to, a)
  BY <1>1, <1>3, <1>4 DEF Offer
<1> HIDE DEF p
<1>6. Envelope(p) = Envelope(o) \o <<To(a)>>
  BY <1>1, <1>2, <1>5, EnvelopeGrows
<1> QED BY <1>5, <1>6 DEF p

\* The sender gets its file, or the package is refused.
LEMMA SenderPreserves ==
  ASSUME Inductive, NEW a \in Address, get_sender(a)
  PROVE  Inductive'
<1> DEFINE n == sess.n
           new == [from |-> <<a>>, to |-> <<>>]
           x == [mail[n] EXCEPT !.offer.from = <<a>>]
<1>1. /\ Files(be, mail, Bodies(mail), 0) /\ be \in QueuedirState
      /\ Directory(be) /\ Live(be) /\ be.phase = "idle"
      /\ sess \in Session /\ mail \in [Number -> Mail] /\ Fresh(sess, mail)
      /\ ~ be.tlen /\ ~ be.dlen /\ resp \in Response
  BY WhileOpen DEF get_sender, Inductive, Holds
<1>2. pc = "body" /\ pc' = "recips"
  BY DEF get_sender
<1>3. CASE ~ response_ok(resp)
  <2>1. UNCHANGED <<resp, sess, be, mail>>
    BY <1>3 DEF get_sender
  <2>2. Holds("recips", resp, sess, be, mail)
    BY <1>1, <1>3, RecipsHolds
  <2> QED BY <1>2, <2>1, <2>2 DEF Inductive
<1>4. CASE response_ok(resp)
  <2>1. PICK answers \in Chains : \E o \in handle_sender(sess, be, a, answers) :
          /\ Becomes(o) /\ resp' = o.resp
          /\ mail' = IF response_ok(o.resp) THEN [mail EXCEPT ![n] = x] ELSE mail
    BY <1>4 DEF get_sender
  <2>2. PICK o \in handle_sender(sess, be, a, answers) :
          /\ sess' = o.sess /\ be' = o.be /\ resp' = o.resp
          /\ mail' = IF response_ok(o.resp) THEN [mail EXCEPT ![n] = x] ELSE mail
    BY <2>1 DEF Becomes
  <2>3. /\ o.sess = sess /\ o.resp \in Response
        /\ \/ o.be = be /\ ~ response_ok(o.resp)
           \/ \E p \in queuedir_sender(be, a) :
                o.be = p.be /\ (response_ok(o.resp) <=> response_ok(p.resp))
    <3>1. answers \in Seq(Response)
      BY Parameters
    <3> QED BY <3>1, SenderHandled
  <2>4. /\ n \in Number /\ mail[n] \in Mail /\ mail[n].verdict = "open"
        /\ be.n = n /\ be.blocks <= mail[n].blocks /\ mail[n].offer = NoOffer
        /\ \A k \in Number : k > n => k # n /\ mail[k].verdict = "none"
    BY <1>2, <1>4, WhileArriving DEF Handed, Inductive, Holds
  <2>5. /\ x \in Mail /\ x.offer = new /\ x.verdict = "open" /\ x.blocks = mail[n].blocks
    <3>1. new \in Offer /\ [NoOffer EXCEPT !.from = <<a>>] = new
      BY DEF Offer, NoOffer
    <3>2. x = [mail[n] EXCEPT !.offer = new]
      BY <2>4, <3>1 DEF Mail
    <3> QED BY <2>4, <3>1, <3>2 DEF Mail
  <2>6. Envelope(new) = <<From(a)>>
    BY EnvelopeOfSender
  <2> HIDE DEF new, x
  <2>7. ASSUME ~ response_ok(o.resp), Directory(o.be), Live(o.be), o.be.phase = "idle",
               Files(o.be, mail, Bodies(mail), 0)
        PROVE  Inductive'
    <3>1. PICK c : c = o.be
      OBVIOUS
    <3>2. Holds("recips", o.resp, sess, c, mail)
      BY <1>1, <2>3, <2>7, <3>1, RecipsHolds
    <3> QED BY <1>2, <2>2, <2>3, <2>7, <3>1, <3>2 DEF Inductive
  <2>8. CASE o.be = be /\ ~ response_ok(o.resp)
    BY <1>1, <2>7, <2>8
  <2>9. ASSUME NEW p \in queuedir_sender(be, a), o.be = p.be,
               response_ok(o.resp) <=> response_ok(p.resp)
        PROVE  Inductive'
    <3>1. /\ Directory(p.be) /\ Live(p.be)
          /\ p.be.new = be.new /\ p.be.taken = be.taken /\ p.be.sync = be.sync
          /\ p.be.phase = "idle" /\ p.be.fate = be.fate /\ p.be.n = be.n
          /\ p.be.blocks = be.blocks
          /\ \/ p.resp = "temp"
             \/ /\ p.resp = "none" /\ p.be.tlen /\ p.be.dlen
                /\ p.be.out.data = <<From(a)>>
      BY <1>1, SenderOutcome
    <3>2. Files(p.be, mail, Bodies(mail), 0) /\ p.be \in QueuedirState
      BY <1>1, <3>1, FilesStay DEF Directory
    <3>3. CASE p.resp = "temp"
      <4>1. ~ response_ok(o.resp)
        BY <2>9, <3>3 DEF response_ok
      <4> QED BY <2>7, <2>9, <3>1, <3>2, <4>1
    <3>4. CASE p.resp # "temp"
      <4>1. response_ok(o.resp)
        BY <2>9, <3>1, <3>4 DEF response_ok
      <4>2. mail' = [mail EXCEPT ![n] = x]
        BY <2>2, <4>1
      <4>3. /\ mail' \in [Number -> Mail] /\ mail'[n] = x /\ Fresh(sess, mail')
            /\ Files(p.be, mail', Bodies(mail'), 0)
        BY <1>1, <2>4, <2>5, <3>2, <4>2, MessageGoesOn, ZenonT(60)
      <4>4. Writes(p.be, {Envelope(mail'[n].offer)})
        BY <2>5, <2>6, <3>1, <3>4, <4>3 DEF Writes
      <4>5. Arriving(sess, p.be, mail') /\ p.be.blocks <= mail'[n].blocks
        BY <2>4, <2>5, <3>1, <4>3 DEF Arriving
      <4>6. Holds("recips", o.resp, sess, p.be, mail')
        BY <1>1, <2>3, <3>1, <4>3, <4>4, <4>5, RecipsHolds
      <4> QED BY <1>2, <2>2, <2>3, <2>9, <4>6 DEF Inductive
    <3> QED BY <3>3, <3>4
  <2> QED BY <2>3, <2>8, <2>9
<1> QED BY <1>3, <1>4

\* A recipient is put behind the envelope, or the package is refused.
LEMMA RecipientPreserves ==
  ASSUME Inductive, NEW a \in Address, Recipient(a)
  PROVE  Inductive'
<1> DEFINE n == sess.n
           more == [mail[n].offer EXCEPT !.to = Append(@, a)]
           x == [mail[n] EXCEPT !.offer.to = Append(@, a)]
<1>1. /\ Files(be, mail, Bodies(mail), 0) /\ be \in QueuedirState
      /\ Directory(be) /\ Live(be) /\ be.phase = "idle"
      /\ sess \in Session /\ mail \in [Number -> Mail] /\ Fresh(sess, mail)
      /\ resp \in Response /\ response_ok(resp) /\ Writes(be, {Envelope(mail[n].offer)})
  BY WhileOpen DEF Recipient, Inductive, Holds
<1>2. pc = "recips" /\ pc' = "recips"
  BY DEF Recipient
<1>3. PICK answers \in Chains : \E o \in handle_recipient(sess, be, a, answers) :
        /\ Becomes(o) /\ resp' = o.resp
        /\ mail' = IF response_ok(o.resp) THEN [mail EXCEPT ![n] = x] ELSE mail
  BY DEF Recipient
<1>4. PICK o \in handle_recipient(sess, be, a, answers) :
        /\ sess' = o.sess /\ be' = o.be /\ resp' = o.resp
        /\ mail' = IF response_ok(o.resp) THEN [mail EXCEPT ![n] = x] ELSE mail
  BY <1>3 DEF Becomes
<1>5. /\ o.sess = sess /\ o.resp \in Response
      /\ \/ o.be = be /\ ~ response_ok(o.resp)
         \/ \E p \in queuedir_recipient(be, a) :
              o.be = p.be /\ (response_ok(o.resp) <=> response_ok(p.resp))
  <2>1. answers \in Seq(Response)
    BY Parameters
  <2> QED BY <2>1, RecipientHandled
<1>6. /\ n \in Number /\ mail[n] \in Mail /\ mail[n].verdict = "open" /\ mail[n].offer \in Offer
      /\ be.n = n /\ be.blocks <= mail[n].blocks
      /\ \A k \in Number : k > n => k # n /\ mail[k].verdict = "none"
  BY <1>1, <1>2, WhileArriving DEF Handed, Mail
<1>7. more \in Offer /\ Envelope(more) = Envelope(mail[n].offer) \o <<To(a)>>
  BY <1>6, OfferGrows
<1>8. x \in Mail /\ x.offer = more /\ x.verdict = "open" /\ x.blocks = mail[n].blocks
  <2>1. x = [mail[n] EXCEPT !.offer = more]
    BY <1>6 DEF Mail
  <2> HIDE DEF more
  <2> QED BY <1>6, <1>7, <2>1 DEF Mail
<1> HIDE DEF more, x
<1>9. ASSUME ~ response_ok(o.resp), Directory(o.be), Live(o.be), o.be.phase = "idle",
             Files(o.be, mail, Bodies(mail), 0)
      PROVE  Inductive'
  <2>1. PICK c : c = o.be
    OBVIOUS
  <2>2. Holds("recips", o.resp, sess, c, mail)
    BY <1>1, <1>5, <1>9, <2>1, RecipsHolds
  <2> QED BY <1>2, <1>4, <1>5, <1>9, <2>1, <2>2 DEF Inductive
<1>10. CASE o.be = be /\ ~ response_ok(o.resp)
  BY <1>1, <1>9, <1>10
<1>11. ASSUME NEW p \in queuedir_recipient(be, a), o.be = p.be,
              response_ok(o.resp) <=> response_ok(p.resp)
       PROVE  Inductive'
  <2>1. /\ Leaves(be, p.be) /\ p.be.blocks = be.blocks
        /\ p.be.n = be.n /\ p.be.phase = be.phase
        /\ \/ /\ p.resp = "none" /\ be.out.st = "open"
              /\ p.be.out.data = be.out.data \o <<To(a)>>
           \/ p.resp = "temp"
    BY <1>1, RecipientOutcome
  <2>2. /\ Directory(p.be) /\ Live(p.be) /\ p.be.phase = "idle" /\ p.be \in QueuedirState
        /\ Files(p.be, mail, Bodies(mail), 0)
    BY <1>2, <2>1, LeftOrReset
  <2>3. CASE p.resp = "temp"
    <3>1. ~ response_ok(o.resp)
      BY <1>11, <2>3 DEF response_ok
    <3> QED BY <1>9, <1>11, <2>2, <3>1
  <2>4. CASE p.resp # "temp"
    <3>1. response_ok(o.resp)
      BY <1>11, <2>1, <2>4 DEF response_ok
    <3>2. mail' = [mail EXCEPT ![n] = x]
      BY <1>4, <3>1
    <3>3. /\ mail' \in [Number -> Mail] /\ mail'[n] = x /\ Fresh(sess, mail')
          /\ Files(p.be, mail', Bodies(mail'), 0)
      BY <1>1, <1>6, <1>8, <2>2, <3>2, MessageGoesOn, ZenonT(60)
    <3>4. Writes(p.be, {Envelope(mail'[n].offer)})
      <4>1. p.be.tlen = p.be.dlen /\ (p.be.dlen => be.out.data = Envelope(mail[n].offer))
        BY <1>1, <2>1, <2>4 DEF Writes, Leaves
      <4> QED BY <1>7, <1>8, <2>1, <2>4, <3>3, <4>1 DEF Writes
    <3>5. Arriving(sess, p.be, mail') /\ p.be.blocks <= mail'[n].blocks
      BY <1>6, <1>8, <2>1, <3>3 DEF Arriving
    <3>6. Holds("recips", o.resp, sess, p.be, mail')
      BY <1>1, <1>5, <2>2, <3>3, <3>4, <3>5, RecipsHolds
    <3> QED BY <1>2, <1>4, <1>5, <1>11, <3>6 DEF Inductive
  <2> QED BY <2>3, <2>4
<1> QED BY <1>5, <1>10, <1>11

-----------------------------------------------------------------------------
(* The answer                                                              *)

\* A package is answered; QMQP ends the session with it.
LEMMA RespondsPreserve ==
  ASSUME Inductive, pc \in {"recips", "ending"},
         NEW o, o.sess \in Session, o.sess.n = sess.n, o.resp \in Response, Responds(o),
         Directory(o.be), Live(o.be), o.be.phase = "idle",
         NEW now \in {0, sess.n}, Files(o.be, mail, Bodies(mail), now),
         now # 0 => sess.n \in Number /\ mail[sess.n].verdict = "open",
         IF response_ok(o.resp) THEN Lasting(o.be, sess.n) ELSE \A f \in o.be.new : f.of # now
  PROVE  Inductive'
<1>1. PICK c, s, r : c = o.be /\ s = o.sess /\ r = o.resp
  OBVIOUS
<1>2. PICK v \in {"ack", "nak"} : v = IF response_ok(r) THEN "ack" ELSE "nak"
  OBVIOUS
<1>3. PICK m2 : m2 = Told(mail, sess.n, v)
  OBVIOUS
<1>4. mail' = m2 /\ resp' = r
  BY <1>1, <1>2, <1>3 DEF Responds, Verdicts, Told
<1>5. sess \in Session /\ mail \in [Number -> Mail] /\ Fresh(sess, mail) /\ c \in QueuedirState
  BY <1>1, WhileOpen DEF Directory
<1>6. m2 \in [Number -> Mail] /\ Fresh(sess, m2) /\ Files(c, m2, Bodies(m2), 0)
  BY <1>1, <1>2, <1>3, <1>5, ToldSettles
<1>7. Fresh(s, m2)
  BY <1>1, <1>6 DEF Fresh
<1>8. CASE ~ OnePackage
  <2>1. pc' = "start" /\ sess' = s /\ be' = c
    BY <1>1, <1>8 DEF Responds, Becomes
  <2>2. Holds("start", r, s, c, m2)
    BY <1>1, <1>6, <1>7, StartHolds
  <2> QED BY <1>4, <2>1, <2>2 DEF Inductive
<1>9. CASE OnePackage
  <2> DEFINE e == exitfn(s, c)
             d == queuedir_reset(c)
  <2>1. pc' = "closed" /\ sess' = e.sess /\ be' = e.be
    BY <1>1, <1>9 DEF Responds, Exits, Becomes
  <2>2. e.sess \in Session /\ e.sess.n = s.n /\ e.be = d
    BY <1>1, ExitHandled
  <2>3. Current(c, m2, 0)
    BY <1>1 DEF Current, Linking
  <2>4. Clear(d, m2, Bodies(m2), 0)
    BY <1>1, <1>6, <2>3, ResetWorks
  <2> HIDE DEF d, e
  <2>5. Fresh(e.sess, m2)
    BY <1>7, <2>2 DEF Fresh
  <2>6. Holds("closed", r, e.sess, d, m2)
    BY <1>1, <1>6, <2>2, <2>4, <2>5, ClosedHolds DEF Clear
  <2> QED BY <1>4, <2>1, <2>2, <2>6 DEF Inductive
<1> QED BY <1>8, <1>9

\* An answer is given, or the end of the message goes on.
LEMMA AnswersPreserve ==
  ASSUME Inductive, pc \in {"recips", "ending"}, Arriving(sess, be, mail),
         NEW o, o.sess \in Session, o.sess.n = sess.n, Answers(o),
         Directory(o.be), Live(o.be),
         \/ /\ o.resp = "busy" /\ o.be.n = be.n /\ o.be.phase # "idle"
            /\ EndIsSafe(o.be, Bodies(mail))
            /\ Files(o.be, mail, Bodies(mail), IF Linking(o.be) THEN sess.n ELSE 0)
         \/ /\ o.resp \in Response /\ o.be.phase = "idle"
            /\ \E now \in {0, sess.n} :
                 /\ Files(o.be, mail, Bodies(mail), now)
                 /\ IF response_ok(o.resp) THEN Lasting(o.be, sess.n)
                    ELSE \A f \in o.be.new : f.of # now
  PROVE  Inductive'
<1>1. CASE /\ o.resp = "busy" /\ o.be.n = be.n /\ o.be.phase # "idle"
           /\ EndIsSafe(o.be, Bodies(mail))
           /\ Files(o.be, mail, Bodies(mail), IF Linking(o.be) THEN sess.n ELSE 0)
  <2>1. pc' = "ending" /\ sess' = o.sess /\ be' = o.be /\ resp' = resp /\ mail' = mail
    BY <1>1 DEF Answers, Becomes
  <2>2. Now("ending", o.sess, o.be) = IF Linking(o.be) THEN sess.n ELSE 0
    BY DEF Now
  <2>3. /\ Fresh(o.sess, mail) /\ Arriving(o.sess, o.be, mail)
        /\ resp \in Response /\ mail \in [Number -> Mail]
    BY <1>1, WhileOpen DEF Fresh, Arriving
  <2>4. Holds("ending", resp, o.sess, o.be, mail)
    BY <1>1, <2>2, <2>3 DEF Holds, Places
  <2> QED BY <2>1, <2>4 DEF Inductive
<1>2. ASSUME o.resp \in Response, o.be.phase = "idle",
             NEW now \in {0, sess.n}, Files(o.be, mail, Bodies(mail), now),
             IF response_ok(o.resp) THEN Lasting(o.be, sess.n)
             ELSE \A f \in o.be.new : f.of # now
      PROVE  Inductive'
  <2>1. o.resp # "busy"
    BY <1>2 DEF Response
  <2>2. Responds(o)
    BY <2>1 DEF Answers
  <2>3. sess.n \in Number /\ mail[sess.n].verdict = "open"
    BY DEF Arriving
  <2> QED BY <1>2, <2>2, <2>3, RespondsPreserve
<1> QED BY <1>1, <1>2

\* What the scratch file holds goes behind the envelope.
LEMMA BodyIsCopied ==
  ASSUME NEW m \in Mail
  PROVE  /\ WithBody(m.offer, 0) = Envelope(m.offer)
         /\ \A j \in 0 .. m.blocks :
              Envelope(m.offer) \o Blocks(j) = WithBody(m.offer, j)
<1>1. m.offer.from \in {<<>>} \cup {<<x>> : x \in Address} /\ m.offer.to \in Seq(Address)
  BY DEF Mail, Offer
<1>2. m.offer.from \in Seq(Address)
  <2>1. CASE m.offer.from = <<>>
    BY <2>1
  <2>2. ASSUME NEW x \in Address, m.offer.from = <<x>>
        PROVE  m.offer.from \in Seq(Address)
    BY <2>2
  <2> QED BY <1>1, <2>1, <2>2
<1> DEFINE front == Envelope(m.offer)
<1>3. front \in Seq(Item)
  BY <1>1, <1>2, EnvelopeGrows
<1> HIDE DEF front
<1>4. Blocks(0) = <<>>
  BY DEF Blocks
<1>5. front \o <<>> = front
  BY <1>3
<1>6. \A j : WithBody(m.offer, j) = front \o Blocks(j)
  BY DEF WithBody, Blocks, front
<1> QED BY <1>4, <1>5, <1>6 DEF front

\* The package is refused before the backend is asked, or its file is to be linked.
LEMMA PackageEndsPreserves ==
  ASSUME Inductive, PackageEnds
  PROVE  Inductive'
<1>1. /\ Files(be, mail, Bodies(mail), 0) /\ be \in QueuedirState
      /\ Directory(be) /\ Live(be) /\ be.phase = "idle"
      /\ sess \in Session /\ mail \in [Number -> Mail] /\ resp \in Response
  BY WhileOpen DEF PackageEnds
<1>2. pc = "recips"
  BY DEF PackageEnds
<1>3. \A c : Files(c, mail, Bodies(mail), 0) /\ c \in QueuedirState => \A f \in c.new : f.of # 0
  BY FilesAreOfMessages DEF Stored
<1>4. CASE ~ response_ok(resp)
  <2> DEFINE o == Outcome(sess, be, resp)
  <2>1. o.sess = sess /\ o.be = be /\ o.resp = resp /\ Responds(o)
    BY <1>4 DEF PackageEnds, Outcome
  <2> HIDE DEF o
  <2>2. IF response_ok(o.resp) THEN Lasting(o.be, sess.n) ELSE \A f \in o.be.new : f.of # 0
    BY <1>1, <1>3, <1>4, <2>1
  <2> QED BY <1>1, <1>2, <2>1, <2>2, RespondsPreserve
<1>5. CASE response_ok(resp)
  <2>1. PICK answers \in Chains : \E o \in handle_message_end(sess, be, answers) : Answers(o)
    BY <1>5 DEF PackageEnds
  <2>2. PICK o \in handle_message_end(sess, be, answers) : Answers(o)
    BY <2>1
  <2>3. /\ o.sess \in Session /\ o.sess.n = sess.n
        /\ \/ /\ o.be \in {be, queuedir_reset(be)}
              /\ ~ response_ok(o.resp) /\ o.resp \in Response
           \/ \E p \in queuedir_message_end(be, sess.fd, sess.file) :
                /\ o.resp = p.resp
                /\ o.be = IF response_ok(p.resp) THEN p.be ELSE queuedir_reset(p.be)
    <3>1. answers \in Seq(Response)
      BY Parameters
    <3> QED BY <1>1, <3>1, MessageEndHandled
  <2>4. /\ Arriving(sess, be, mail) /\ Writes(be, {Envelope(mail[sess.n].offer)})
        /\ sess.n \in Number /\ mail[sess.n] \in Mail
        /\ be.blocks <= mail[sess.n].blocks /\ be.blocks \in Nat
        /\ mail[sess.n].blocks \in Nat
    BY <1>2, <1>5, WhileArriving DEF Inductive, Holds, Handed
  <2>5. ASSUME NEW c, o.be = c, ~ response_ok(o.resp), o.resp \in Response, Directory(c),
               Live(c), c.phase = "idle", Files(c, mail, Bodies(mail), 0)
        PROVE  Inductive'
    <3>1. \A f \in c.new : f.of # 0
      BY <1>3, <2>5 DEF Directory
    <3> QED BY <1>2, <2>2, <2>3, <2>4, <2>5, <3>1, AnswersPreserve
  <2>6. CASE o.be \in {be, queuedir_reset(be)} /\ ~ response_ok(o.resp) /\ o.resp \in Response
    <3>1. CASE o.be = be
      BY <1>1, <2>5, <2>6, <3>1
    <3>2. CASE o.be = queuedir_reset(be)
      <4> DEFINE c == queuedir_reset(be)
      <4>1. o.be = c /\ Clear(c, mail, Bodies(mail), 0)
        BY <1>2, <3>2, WhileOpen, ResetIsClear
      <4> HIDE DEF c
      <4> QED BY <2>5, <2>6, <4>1 DEF Clear
    <3> QED BY <2>6, <3>1, <3>2
  <2>7. ASSUME NEW p \in queuedir_message_end(be, sess.fd, sess.file), o.resp = p.resp,
               o.be = IF response_ok(p.resp) THEN p.be ELSE queuedir_reset(p.be)
        PROVE  Inductive'
    <3> DEFINE body == Blocks(be.blocks)
    <3>1. /\ Leaves(be, p.be) /\ p.be.n = be.n
          /\ \/ p.resp = "busy" /\ p.be.phase = "sync" /\ Copied(be, p.be)
             \/ p.resp = "temp" /\ p.be.phase = be.phase
      BY <1>1, MessageEndOutcome
    <3>2. CASE p.resp = "busy"
      <4>1. o.be = p.be /\ o.resp = "busy" /\ p.be.phase = "sync"
        BY <2>7, <3>1, <3>2 DEF response_ok
      <4>2. ~ Linking(p.be) /\ ~ Linking(be)
        BY <1>1, <4>1 DEF Linking
      <4>3. Directory(p.be) /\ Live(p.be)
        BY <1>1, <3>1, <4>2, LeavesKeeps
      <4>4. Files(p.be, mail, Bodies(mail), 0)
        BY <1>1, <3>1, FilesStay DEF Leaves
      <4>5. EndIsSafe(p.be, Bodies(mail))
        <5> DEFINE m == mail[sess.n]
                   W == Bodies(mail)[p.be.n]
        <5>1. W = {WithBody(m.offer, j) : j \in 0 .. m.blocks}
          BY <2>4, <3>1 DEF Bodies, Arriving
        <5>2. /\ WithBody(m.offer, 0) = Envelope(m.offer)
              /\ Envelope(m.offer) \o body = WithBody(m.offer, be.blocks)
          <6>1. be.blocks \in 0 .. m.blocks
            BY <2>4
          <6> QED BY <2>4, <6>1, BodyIsCopied
        <5>3. Envelope(m.offer) \in W /\ Envelope(m.offer) \o body \in W
          <6>1. 0 \in 0 .. m.blocks /\ be.blocks \in 0 .. m.blocks
            BY <2>4
          <6> HIDE DEF m
          <6> QED BY <5>1, <5>2, <6>1
        <5> HIDE DEF W, m
        <5>4. be.tlen = be.dlen /\ (be.dlen /\ be.out.st = "open" => be.out.data = Envelope(m.offer))
          BY <2>4 DEF Writes, m
        <5> HIDE DEF body
        <5>5. p.be.dlen /\ p.be.out.st = "open" => p.be.out.data \in W
          <6>1. IF be.tmpfd THEN be.out.st = "open" /\ p.be.out.data = be.out.data \o body
                ELSE p.be.out = be.out
            BY <3>1, <3>2 DEF Copied, body
          <6> QED BY <3>1, <5>3, <5>4, <6>1 DEF Leaves
        <5>6. Writes(p.be, W)
          BY <3>1, <4>1, <5>4, <5>5 DEF Leaves, Writes
        <5> QED BY <4>1, <5>6 DEF EndIsSafe, W
      <4> QED BY <1>2, <2>2, <2>3, <2>4, <3>1, <4>1, <4>2, <4>3, <4>4, <4>5, AnswersPreserve
    <3>3. CASE p.resp = "temp"
      <4> DEFINE d == queuedir_reset(p.be)
      <4>1. o.be = d /\ ~ response_ok(o.resp) /\ o.resp \in Response
        BY <2>7, <3>3 DEF response_ok, Response
      <4>2. Clear(d, mail, Bodies(mail), 0)
        <5>1. p.be.phase = be.phase
          BY <3>1, <3>3
        <5> QED BY <1>2, <3>1, <5>1, LeftOrReset
      <4> HIDE DEF d
      <4> QED BY <2>5, <4>1, <4>2 DEF Clear
    <3> QED BY <3>1, <3>2, <3>3
  <2> QED BY <2>3, <2>6, <2>7
<1> QED BY <1>4, <1>5

\* The file is synced, linked and unlinked, and the package answered, or reset.
LEMMA EndGoesOnPreserves ==
  ASSUME Inductive, EndGoesOn
  PROVE  Inductive'
<1> DEFINE now == Now(pc, sess, be)
<1>1. /\ Files(be, mail, Bodies(mail), now) /\ Current(be, mail, now)
      /\ Directory(be) /\ Live(be) /\ sess \in Session /\ mail \in [Number -> Mail]
  BY WhileOpen DEF EndGoesOn
<1>2. /\ pc = "ending" /\ Arriving(sess, be, mail)
      /\ be.phase # "idle" /\ EndIsSafe(be, Bodies(mail))
  BY DEF EndGoesOn, Inductive, Holds
<1>3. now \in {0, sess.n} /\ be.n = sess.n /\ be.n \in Message /\ mail[be.n].verdict = "open"
  BY <1>2, Parameters DEF Now, Arriving
<1>4. PICK o \in handle_message_end_goes_on(sess, be) : Answers(o)
  BY DEF EndGoesOn
<1>5. PICK p \in queuedir_message_end_goes_on(be) : o = MessageEnded(sess, p.be, p.resp)
  BY DEF handle_message_end_goes_on
<1> HIDE DEF now
<1>6. /\ p.be.n = be.n /\ Directory(p.be) /\ Live(p.be)
      /\ \/ /\ p.resp = "busy" /\ p.be.phase # "idle" /\ EndIsSafe(p.be, Bodies(mail))
            /\ Files(p.be, mail, Bodies(mail), IF Linking(p.be) THEN be.n ELSE 0)
         \/ /\ p.resp = "none" /\ p.be.phase = "idle"
            /\ Files(p.be, mail, Bodies(mail), be.n) /\ Lasting(p.be, be.n)
         \/ p.resp = "temp" /\ Clear(p.be, mail, Bodies(mail), now)
  BY <1>1, <1>2, <1>3, GoesOnOutcome
<1>7. /\ o.sess \in Session /\ o.sess.n = sess.n /\ o.resp = p.resp
      /\ o.be = IF response_ok(p.resp) THEN p.be ELSE queuedir_reset(p.be)
  <2>1. p.resp \in {"busy", "none", "temp"}
    BY <1>6
  <2> QED BY <1>1, <1>5, <2>1, Ended
<1>8. CASE /\ p.resp = "busy" /\ p.be.phase # "idle" /\ EndIsSafe(p.be, Bodies(mail))
           /\ Files(p.be, mail, Bodies(mail), IF Linking(p.be) THEN be.n ELSE 0)
  <2>1. o.be = p.be
    BY <1>7, <1>8 DEF response_ok
  <2> QED BY <1>2, <1>3, <1>4, <1>6, <1>7, <1>8, <2>1, AnswersPreserve
<1>9. CASE /\ p.resp = "none" /\ p.be.phase = "idle"
           /\ Files(p.be, mail, Bodies(mail), be.n) /\ Lasting(p.be, be.n)
  <2>1. o.be = p.be /\ response_ok(o.resp) /\ o.resp \in Response
    BY <1>7, <1>9 DEF response_ok, Response
  <2> QED BY <1>2, <1>3, <1>4, <1>6, <1>7, <1>9, <2>1, AnswersPreserve
<1>10. CASE p.resp = "temp" /\ Clear(p.be, mail, Bodies(mail), now)
  <2>1. queuedir_reset(p.be) = p.be
    BY <1>10, ResetAgain DEF Clear, Directory
  <2>2. o.be = p.be /\ ~ response_ok(o.resp) /\ o.resp \in Response
    BY <1>7, <1>10, <2>1 DEF response_ok, Response
  <2> QED BY <1>2, <1>3, <1>4, <1>7, <1>10, <2>2, AnswersPreserve DEF Clear
<1> QED BY <1>6, <1>8, <1>9, <1>10


-----------------------------------------------------------------------------
(* The end of the session                                                  *)

\* What becomes of a message the session's end has found at p.
Fate(p) == IF p = "ending" THEN "unknown" ELSE "cut"

(***************************************************************************)
(* When the session ends, the message it was in the middle of is cut short *)
(* or its fate unknown, whatever became of the files meanwhile.            *)
(***************************************************************************)
LEMMA CutIsSettled ==
  ASSUME Inductive, NEW c, Directory(c), Files(c, mail, Bodies(mail), Now(pc, sess, be))
  PROVE  LET m2 == Told(mail, sess.n, Fate(pc))
         IN  m2 \in [Number -> Mail] /\ Fresh(sess, m2) /\ Files(c, m2, Bodies(m2), 0)
<1>1. PICK v, now : v = Fate(pc) /\ now = Now(pc, sess, be)
  OBVIOUS
<1>2. c \in QueuedirState /\ mail \in [Number -> Mail] /\ sess \in Session /\ Fresh(sess, mail)
  BY DEF Directory, Inductive, Holds
<1>3. v \in {"cut", "unknown"} /\ (v = "cut" => now = 0) /\ now \in {0, sess.n}
  BY <1>1 DEF Fate, Now
<1>4. now # 0 => sess.n \in Number /\ mail[sess.n].verdict = "open"
  BY <1>1 DEF Now, Inductive, Holds, Arriving
<1>5. Files(c, mail, Bodies(mail), now)
  BY <1>1
<1>6. LET m2 == Told(mail, sess.n, v)
      IN  m2 \in [Number -> Mail] /\ Fresh(sess, m2) /\ Files(c, m2, Bodies(m2), 0)
  BY <1>2, <1>3, <1>4, <1>5, ToldSettles
<1> QED BY <1>1, <1>6

\* Leaving and the alarm reset the backend on the way out.
LEMMA EndsPreserve ==
  ASSUME Inductive, Leave \/ Alarm
  PROVE  Inductive'
<1> DEFINE o == exitfn(sess, be)
           c == queuedir_reset(be)
<1>1. PICK m2 : m2 = Told(mail, sess.n, Fate(pc))
  OBVIOUS
<1>2. /\ pc # "closed" /\ pc' = "closed" /\ mail' = m2 /\ resp' = resp
      /\ sess' = o.sess /\ be' = o.be
  BY <1>1 DEF Leave, Alarm, Exits, Becomes, Outcome, Verdicts, Told, Fate
<1>3. o.sess \in Session /\ o.sess.n = sess.n /\ o.be = c
  BY <1>2, WhileOpen, ExitHandled
<1>4. Clear(c, mail, Bodies(mail), Now(pc, sess, be))
  BY <1>2, ResetIsClear
<1> HIDE DEF o, c
<1>5. Directory(c) /\ c.tmp = {} /\ Files(c, mail, Bodies(mail), Now(pc, sess, be))
  BY <1>4 DEF Clear
<1>6. m2 \in [Number -> Mail] /\ Fresh(sess, m2) /\ Files(c, m2, Bodies(m2), 0)
  BY <1>1, <1>5, CutIsSettled
<1>7. Fresh(o.sess, m2) /\ resp \in Response
  BY <1>2, <1>3, <1>6, WhileOpen DEF Fresh
<1>8. Holds("closed", resp, o.sess, c, m2)
  BY <1>3, <1>5, <1>6, <1>7, ClosedHolds
<1> QED BY <1>2, <1>3, <1>8 DEF Inductive

-----------------------------------------------------------------------------
(* The world outside                                                       *)

\* A file is taken out of new/, at any moment.
LEMMA TakenPreserves ==
  ASSUME Inductive, Taken
  PROVE  Inductive'
<1>1. PICK c \in Takes(be) : be' = c /\ be.fate # "down"
  BY DEF Taken
<1>2. UNCHANGED <<pc, resp, sess, mail>>
  BY DEF Taken
<1>3. Directory(be) /\ Files(be, mail, Bodies(mail), Now(pc, sess, be))
  BY DEF Inductive, Holds
<1>4. /\ Directory(c) /\ (Live(be) => Live(c)) /\ Files(c, mail, Bodies(mail), Now(pc, sess, be))
      /\ Stored(c) = Stored(be)
      /\ \A k : Lasting(be, k) => Lasting(c, k)
      /\ c.name = be.name /\ c.tlen = be.tlen /\ c.dlen = be.dlen /\ c.out = be.out
      /\ c.n = be.n /\ c.phase = be.phase /\ c.sync = be.sync
      /\ c.tmp = be.tmp /\ c.fate = be.fate /\ c.blocks = be.blocks
  BY <1>1, <1>3, TakesOutcome
<1>5. Now(pc, sess, c) = Now(pc, sess, be)
  BY <1>4 DEF Now, Linking
<1>6. \A D : Writes(be, D) => Writes(c, D)
  BY <1>4 DEF Writes
<1>7. EndIsSafe(be, Bodies(mail)) => EndIsSafe(c, Bodies(mail))
  BY <1>4, <1>6 DEF EndIsSafe
<1>8. Arriving(sess, be, mail) => Arriving(sess, c, mail)
  BY <1>4 DEF Arriving
<1>9. Holds(pc, resp, sess, c, mail)
  BY <1>4, <1>5, <1>6, <1>7, <1>8 DEF Inductive, Holds
<1> QED BY <1>1, <1>2, <1>9 DEF Inductive

\* A kill leaves the directory as it is, and what the kill leaves of tmp/ stays.
LEMMA KilledPreserves ==
  ASSUME Inductive, Killed
  PROVE  Inductive'
<1>1. PICK c, m2 : c = [be EXCEPT !.fate = "killed"] /\ m2 = Told(mail, sess.n, Fate(pc))
  OBVIOUS
<1>2. /\ pc # "closed" /\ pc' = "closed" /\ be' = c /\ mail' = m2
      /\ UNCHANGED <<resp, sess>>
  BY <1>1 DEF Killed, Verdicts, Told, Fate
<1>3. /\ be \in QueuedirState /\ Directory(be) /\ Live(be)
      /\ Files(be, mail, Bodies(mail), Now(pc, sess, be))
      /\ resp \in Response /\ sess \in Session
  BY <1>2, WhileOpen
<1>4. /\ c \in QueuedirState /\ c.fate = "killed" /\ c.new = be.new /\ c.taken = be.taken
      /\ c.sync = be.sync /\ c.name = be.name
  BY <1>1, <1>3 DEF QueuedirState
<1>5. Directory(c)
  BY <1>3, <1>4 DEF Directory, Live
<1>6. Files(c, mail, Bodies(mail), Now(pc, sess, be))
  BY <1>3, <1>4 DEF Files, Live, Promised, Stored, Lasting
<1>7. m2 \in [Number -> Mail] /\ Fresh(sess, m2) /\ Files(c, m2, Bodies(m2), 0)
  BY <1>1, <1>5, <1>6, CutIsSettled
<1>8. Holds("closed", resp, sess, c, m2)
  BY <1>3, <1>4, <1>5, <1>7, ClosedHolds
<1> QED BY <1>2, <1>8 DEF Inductive

\* A power failure, during the session or after it.
LEMMA PowerLostPreserves ==
  ASSUME Inductive, PowerLost
  PROVE  Inductive'
<1>1. PICK c \in PowerFails(be) : be' = c /\ be.fate # "down"
  BY DEF PowerLost
<1>2. PICK m2 : m2 = Told(mail, sess.n, Fate(pc))
  OBVIOUS
<1>3. pc' = "closed" /\ mail' = m2 /\ UNCHANGED <<resp, sess>>
  BY <1>2 DEF PowerLost, Verdicts, Told, Fate
<1>4. /\ Directory(be) /\ Files(be, mail, Bodies(mail), Now(pc, sess, be))
      /\ resp \in Response /\ sess \in Session
  BY DEF Inductive, Holds
<1>5. Directory(c) /\ Files(c, mail, Bodies(mail), Now(pc, sess, be)) /\ c.fate = "down"
  BY <1>1, <1>4, PowerFailsOutcome
<1>6. m2 \in [Number -> Mail] /\ Fresh(sess, m2) /\ Files(c, m2, Bodies(m2), 0)
  BY <1>2, <1>5, CutIsSettled
<1>7. Holds("closed", resp, sess, c, m2)
  BY <1>4, <1>5, <1>6, ClosedHolds
<1> QED BY <1>1, <1>3, <1>7 DEF Inductive


-----------------------------------------------------------------------------
(* The theorems                                                            *)

\* A session starts with an empty directory.
LEMMA InitEstablishes ==
  ASSUME Init
  PROVE  Inductive
<1>1. PICK sync \in BOOLEAN : QmtpInit(QueuedirInit(sync))
  BY DEF Init
<1>2. PICK need \in NeedsFile : sess = NewSession(need)
  BY <1>1 DEF QmtpInit
<1>3. /\ pc = "start" /\ resp = "none" /\ be = QueuedirInit(sync)
      /\ mail = [n \in Number |-> NoMail]
  BY <1>1 DEF QmtpInit
<1>4. sess \in Session /\ resp \in Response
  BY <1>2, <1>3, QmtpQueuedirAssumption DEF NewSession, Session, QmtpParameters, Response
<1>5. NoMail \in Mail
  BY DEF NoOffer, Offer, NoMail, Mail, Verdict
<1>6. mail \in [Number -> Mail] /\ \A k \in Number : mail[k].verdict = "none"
  BY <1>3, <1>5 DEF NoMail
<1>7. /\ be.fate = "up" /\ be.tmp = {} /\ be.new = {} /\ be.taken = {}
      /\ ~ be.tlen /\ ~ be.dlen /\ be.phase = "idle"
  BY <1>3 DEF QueuedirInit
<1>8. be \in QueuedirState
  <2>1. /\ 0 \in Nat /\ 0 \in 0 .. MaxMessages /\ {} \in SUBSET File /\ {} \in SUBSET Clock
        /\ Closed \in [st : {"closed", "open", "bad"}, data : Seq(Item)]
    BY QueuedirAssumption DEF Closed
  <2> QED BY <1>3, <2>1 DEF QueuedirInit, QueuedirState
<1>9. Directory(be) /\ Live(be)
  BY <1>7, <1>8 DEF Directory, Live, Linking
<1>10. Files(be, mail, Bodies(mail), 0)
  BY <1>6, <1>7, Parameters DEF Files, Stored
<1>11. Fresh(sess, mail)
  BY <1>6 DEF Fresh
<1>12. Holds("start", resp, sess, be, mail)
  BY <1>4, <1>6, <1>7, <1>9, <1>10, <1>11, StartHolds
<1> QED BY <1>3, <1>12 DEF Inductive

\* Every step of the session and of the world keeps the invariant.
LEMMA NextPreserves ==
  ASSUME Inductive, [Next]_vars
  PROVE  Inductive'
<1>1. CASE Package
  BY <1>1, PackagePreserves
<1>2. CASE BodyStarts
  BY <1>2, BodyStartsPreserves
<1>3. CASE BlockArrives
  BY <1>3, BlockArrivesPreserves
<1>4. CASE BlockHandled
  BY <1>4, BlockHandledPreserves
<1>5. ASSUME NEW a \in Address, get_sender(a) \/ Recipient(a)
      PROVE  Inductive'
  BY <1>5, SenderPreserves, RecipientPreserves
<1>6. CASE PackageEnds
  BY <1>6, PackageEndsPreserves
<1>7. CASE EndGoesOn
  BY <1>7, EndGoesOnPreserves
<1>8. CASE Leave \/ Alarm
  BY <1>8, EndsPreserve
<1>9. CASE Taken
  BY <1>9, TakenPreserves
<1>10. CASE Killed
  BY <1>10, KilledPreserves
<1>11. CASE PowerLost
  BY <1>11, PowerLostPreserves
<1>12. CASE UNCHANGED vars
  BY <1>12 DEF vars, Inductive
<1> QED BY <1>1, <1>2, <1>3, <1>4, <1>5, <1>6, <1>7, <1>8, <1>9, <1>10, <1>11, <1>12
        DEF Next, QmtpNext

\* The invariant holds of every session.
THEOREM InductiveAlways == Spec => []Inductive
<1>1. Init => Inductive
  BY InitEstablishes
<1>2. Inductive /\ [Next]_vars => Inductive'
  BY NextPreserves
<1> QED BY <1>1, <1>2, PTL DEF Spec

\* The state has its type, at every point of every session.
THEOREM TypeCorrect == Spec => []TypeOK
<1>1. Inductive => TypeOK
  BY DEF Inductive, Holds, Places, Directory, TypeOK
<1> QED BY <1>1, InductiveAlways, PTL

(***************************************************************************)
(* Whatever is killed, fails or loses its power, and whatever an earlier   *)
(* package has left in the backend: a file of new/, or taken from there,   *)
(* starts with the envelope accepted for its own package, and nothing but  *)
(* blocks of its own body follows.                                         *)
(***************************************************************************)
THEOREM NewAlwaysHasItsEnvelope == Spec => []NewHasItsEnvelope
<1>1. Inductive => NewHasItsEnvelope
  <2> SUFFICES ASSUME Inductive, Promised(be), NEW f \in Stored(be)
               PROVE  \E j \in 0 .. mail[f.of].blocks : f.data = WithBody(mail[f.of].offer, j)
    BY DEF NewHasItsEnvelope
  <2>1. be \in QueuedirState /\ Files(be, mail, Bodies(mail), Now(pc, sess, be))
    BY DEF Inductive, Holds, Directory
  <2>2. f.of \in Number /\ f.data \in Bodies(mail)[f.of]
    BY <2>1, FilesAreOfMessages, Parameters DEF Files
  <2> QED BY <2>2 DEF Bodies
<1> QED BY <1>1, InductiveAlways, PTL

\* A package the client was told is accepted is stored, and stays stored.
THEOREM AckedAlwaysInNew == Spec => []AckedIsInNew
<1>1. Inductive => AckedIsInNew
  BY DEF Inductive, Holds, Files, Lasting, Stored, AckedIsInNew, AcceptedIsStored
<1> QED BY <1>1, InductiveAlways, PTL

\* A package that was refused, or did not come whole, is not in new/.
THEOREM RefusedNeverInNew == Spec => []RefusedIsNotInNew
<1>1. Inductive => RefusedIsNotInNew
  <2> SUFFICES ASSUME Inductive, be.fate # "down", NEW f \in be.new
               PROVE  mail[f.of].verdict \notin {"nak", "cut"}
    BY DEF RefusedIsNotInNew, RefusedIsRemoved
  <2>1. be \in QueuedirState /\ Files(be, mail, Bodies(mail), Now(pc, sess, be))
    BY DEF Inductive, Holds, Directory
  <2>2. f.of # 0
    BY <2>1, FilesAreOfMessages DEF Stored
  <2>3. mail[f.of].verdict \in {"ack", "unknown"} \/ f.of = Now(pc, sess, be)
    BY <2>1 DEF Files
  <2>4. f.of = Now(pc, sess, be) => mail[f.of].verdict = "open"
    BY <2>2 DEF Now, Inductive, Holds, Arriving
  <2> QED BY <2>3, <2>4
<1> QED BY <1>1, InductiveAlways, PTL

\* A session that was not killed has left nothing in tmp/.
THEOREM TmpAlwaysClean == Spec => []TmpIsClean
<1>1. Inductive => TmpIsClean
  BY DEF Inductive, Holds, TmpIsClean, NothingLeftInTmp
<1> QED BY <1>1, InductiveAlways, PTL


-----------------------------------------------------------------------------
(***************************************************************************)
(* The session implements Submission.                                      *)
(***************************************************************************)

SameVerdicts == \A k \in Message : mail'[k].verdict = mail[k].verdict

\* The client is told v of message n, or would be, and nothing of another.
Tells(n, v) ==
  /\ mail'[n].verdict = v
  /\ \A k \in Message : k # n => mail'[k].verdict = mail[k].verdict
  /\ \/ mail[n].verdict = "none" /\ v \in {"open", "nak"}
     \/ mail[n].verdict = "open" /\ v \in {"ack", "nak", "cut", "unknown"}

\* What a step that is neither a link nor a power failure is to Submission.
Dialogue ==
  \/ SameVerdicts /\ SameStore(be, be')
  \/ \E n \in Message : Tells(n, "open") /\ SameStore(be, be')
  \/ \E n \in Message : Tells(n, "ack") /\ SameStore(be, be') /\ Promised(be')
  \/ \E n \in Message : Tells(n, "nak") /\ MayRemove(be, be', n)
  \/ \E n \in Message, v \in {"cut", "unknown"} :
       Tells(n, v) /\ MayRemove(be, be', n) /\ pc' = "closed"

\* After the end nothing is stored that was cut short, and what was accepted is.
LEMMA StoreIsTold ==
  ASSUME NEW p, NEW r, NEW s, NEW b, NEW m, Holds(p, r, s, b, m), NEW n \in Message
  PROVE  /\ p = "closed" /\ m[n].verdict = "cut" => n \notin StoredMessages(b)
         /\ Promised(b) /\ m[n].verdict = "ack" => n \in StoredMessages(b)
<1>1. Files(b, m, Bodies(m), Now(p, s, b)) /\ b \in QueuedirState
  BY DEF Holds, Directory
<1>2. ASSUME p = "closed", m[n].verdict = "cut"
      PROVE  n \notin StoredMessages(b)
  <2>1. \A f \in Stored(b) : m[f.of].verdict \in {"ack", "nak", "unknown"}
    BY <1>1, <1>2, FilesAreOfMessages DEF Files, Now
  <2> QED BY <1>2, <2>1 DEF StoredMessages
<1>3. ASSUME Promised(b), m[n].verdict = "ack"
      PROVE  n \in StoredMessages(b)
  <2>1. Lasting(b, n)
    BY <1>1, <1>3 DEF Files
  <2> QED BY <2>1 DEF Lasting, StoredMessages, Stored
<1> QED BY <1>2, <1>3

\* Such a step is one of Submission's, or changes nothing of it.
LEMMA DialogueImplements ==
  ASSUME Dialogue, Inductive'
  PROVE  [Promise!Next]_(Promise!vars)
<1>1. \A n \in Message :
        /\ pc' = "closed" /\ mail'[n].verdict = "cut" => n \notin StoredMessages(be')
        /\ Promised(be') /\ mail'[n].verdict = "ack" => n \in StoredMessages(be')
  BY StoreIsTold DEF Inductive
<1>2. CASE SameVerdicts /\ SameStore(be, be')
  BY <1>2 DEF SameVerdicts, SameStore, Promise!vars
<1>3. ASSUME NEW n \in Message, Tells(n, "open"), SameStore(be, be')
      PROVE  Promise!Next
  <2>1. Promise!Tells(n, "open") /\ mail[n].verdict = "none"
    BY <1>3 DEF Tells, Promise!Tells
  <2> QED BY <1>3, <2>1 DEF SameStore, Promise!Submit, Promise!Next
<1>4. ASSUME NEW n \in Message, Tells(n, "ack"), SameStore(be, be'), Promised(be')
      PROVE  Promise!Next
  <2>1. Promise!Tells(n, "ack") /\ mail[n].verdict = "open"
    BY <1>4 DEF Tells, Promise!Tells
  <2>2. n \in StoredMessages(be')
    BY <1>1, <1>4 DEF Tells
  <2> QED BY <1>4, <2>1, <2>2 DEF SameStore, Promise!Accept, Promise!Next
<1>5. ASSUME NEW n \in Message, Tells(n, "nak"), MayRemove(be, be', n)
      PROVE  Promise!Next
  <2>1. Promise!Tells(n, "nak") /\ mail[n].verdict \in {"none", "open"}
    BY <1>5 DEF Tells, Promise!Tells
  <2> QED BY <1>5, <2>1 DEF MayRemove, Promise!Refuse, Promise!MayDrop, Promise!Next
<1>6. ASSUME NEW n \in Message, NEW v \in {"cut", "unknown"},
             Tells(n, v), MayRemove(be, be', n), pc' = "closed"
      PROVE  Promise!Next
  <2>1. Promise!Tells(n, v) /\ mail[n].verdict = "open"
    BY <1>6 DEF Tells, Promise!Tells
  <2>2. v = "cut" => n \notin StoredMessages(be')
    BY <1>1, <1>6 DEF Tells
  <2>3. Promise!Cut(n)
    BY <2>1, <2>2 DEF Promise!Cut
  <2> QED BY <1>6, <2>3 DEF MayRemove, Promise!Lose, Promise!MayDrop, Promise!Next
<1> QED BY <1>2, <1>3, <1>4, <1>5, <1>6 DEF Dialogue

\* A reset between packages, or while one arrives, removes nothing of the store.
LEMMA ResetStoresNothing ==
  ASSUME Inductive, pc \notin {"ending", "closed"}
  PROVE  /\ SameStore(be, queuedir_reset(be))
         /\ \A c : Leaves(be, c) /\ c.phase = be.phase
              => SameStore(be, c) /\ SameStore(be, queuedir_reset(c))
<1>1. SameStore(be, queuedir_reset(be))
  BY WhileOpen, ResetStores
<1>2. ASSUME NEW c, Leaves(be, c), c.phase = be.phase
      PROVE  SameStore(be, c) /\ SameStore(be, queuedir_reset(c))
  <2>1. Directory(c) /\ Live(c) /\ ~ Linking(c)
    BY <1>2, LeftOrReset DEF Linking
  <2>2. SameStore(c, queuedir_reset(c))
    BY <2>1, ResetStores
  <2>3. SameStore(be, c)
    BY <1>2, StoreStays DEF Leaves
  <2> QED BY <2>2, <2>3 DEF SameStore
<1> QED BY <1>1, <1>2

\* Between packages, and while a body or an envelope comes, the client is told
\* nothing, nor is anything stored.
LEMMA NothingTold ==
  ASSUME Inductive,
         \/ Package \/ BlockArrives \/ BlockHandled
         \/ \E a \in Address : get_sender(a) \/ Recipient(a)
  PROVE  Dialogue
<1>1. /\ pc \notin {"ending", "closed"} /\ sess \in Session /\ be \in QueuedirState
      /\ be.phase = "idle" /\ Directory(be) /\ Live(be) /\ mail \in [Number -> Mail]
  BY WhileOpen DEF Package, BlockArrives, BlockHandled, get_sender, Recipient
<1>2. SameStore(be, be)
  BY DEF SameStore
<1>3. CASE Package
  <2>1. PICK answers \in Chains : Becomes(handle_reset(sess, be, answers))
    BY <1>3 DEF Package
  <2>2. be' = queuedir_reset(be)
    BY <1>1, <2>1, ResetHandled, Parameters DEF Becomes
  <2> QED BY <1>1, <1>3, <2>2, ResetStoresNothing DEF Package, Dialogue, SameVerdicts
<1>4. CASE BlockArrives
  <2>1. mail' = [mail EXCEPT ![sess.n].blocks = @ + 1] /\ be' = be
    BY <1>4 DEF BlockArrives
  <2>2. SameVerdicts
    BY <1>1, <2>1, Parameters DEF SameVerdicts, Mail
  <2> QED BY <1>2, <2>1, <2>2 DEF Dialogue
<1>5. CASE BlockHandled
  <2>1. PICK answers \in Chains : \E o \in handle_data_bytes(sess, be, answers) : Becomes(o)
    BY <1>5 DEF BlockHandled
  <2>2. PICK o \in handle_data_bytes(sess, be, answers) : be' = o.be
    BY <2>1 DEF Becomes
  <2>3. \/ be' = be
        \/ be' = queuedir_reset(be)
        \/ \E p \in queuedir_data_block(be) : be' \in {p.be, queuedir_reset(p.be)}
    <3>1. answers \in Seq(Response)
      BY Parameters
    <3> QED BY <1>1, <2>2, <3>1, DataBytesHandled
  <2>4. ASSUME NEW p \in queuedir_data_block(be)
        PROVE  SameStore(be, p.be) /\ SameStore(be, queuedir_reset(p.be))
    <3>1. Leaves(be, p.be) /\ p.be.phase = be.phase
      BY <1>1, DataBlockOutcome
    <3> QED BY <1>1, <3>1, ResetStoresNothing
  <2>5. SameStore(be, be')
    BY <1>1, <1>2, <2>3, <2>4, ResetStoresNothing
  <2> QED BY <1>5, <2>5 DEF BlockHandled, Dialogue, SameVerdicts
<1>6. ASSUME NEW a \in Address, get_sender(a)
      PROVE  Dialogue
  <2>1. CASE ~ response_ok(resp)
    BY <1>2, <1>6, <2>1 DEF get_sender, Dialogue, SameVerdicts
  <2>2. CASE response_ok(resp)
    <3>1. PICK answers \in Chains : \E o \in handle_sender(sess, be, a, answers) :
            Becomes(o) /\ mail' \in {mail, [mail EXCEPT ![sess.n].offer.from = <<a>>]}
      BY <1>6, <2>2 DEF get_sender
    <3>2. PICK o \in handle_sender(sess, be, a, answers) :
            be' = o.be /\ mail' \in {mail, [mail EXCEPT ![sess.n].offer.from = <<a>>]}
      BY <3>1 DEF Becomes
    <3>3. be' = be \/ \E p \in queuedir_sender(be, a) : be' = p.be
      <4>1. answers \in Seq(Response)
        BY Parameters
      <4> QED BY <3>2, <4>1, SenderHandled
    <3>4. ASSUME NEW p \in queuedir_sender(be, a)
          PROVE  SameStore(be, p.be)
      <4>1. ~ be.tlen /\ ~ be.dlen
        BY <1>6 DEF get_sender, Inductive, Holds
      <4>2. /\ p.be.new = be.new /\ p.be.taken = be.taken
            /\ p.be.sync = be.sync /\ p.be.fate = be.fate
        BY <1>1, <4>1, SenderOutcome
      <4> QED BY <4>2, StoreStays
    <3>5. SameVerdicts
      <4>1. CASE mail' = [mail EXCEPT ![sess.n].offer.from = <<a>>]
        BY <1>1, <4>1, Parameters DEF SameVerdicts, Mail
      <4> QED BY <3>2, <4>1 DEF SameVerdicts
    <3> QED BY <1>2, <3>3, <3>4, <3>5 DEF Dialogue
  <2> QED BY <2>1, <2>2
<1>7. ASSUME NEW a \in Address, Recipient(a)
      PROVE  Dialogue
  <2>1. PICK answers \in Chains : \E o \in handle_recipient(sess, be, a, answers) :
          Becomes(o) /\ mail' \in {mail, [mail EXCEPT ![sess.n].offer.to = Append(@, a)]}
    BY <1>7 DEF Recipient
  <2>2. PICK o \in handle_recipient(sess, be, a, answers) :
          be' = o.be /\ mail' \in {mail, [mail EXCEPT ![sess.n].offer.to = Append(@, a)]}
    BY <2>1 DEF Becomes
  <2>3. be' = be \/ \E p \in queuedir_recipient(be, a) : be' = p.be
    <3>1. answers \in Seq(Response)
      BY Parameters
    <3> QED BY <2>2, <3>1, RecipientHandled
  <2>4. ASSUME NEW p \in queuedir_recipient(be, a)
        PROVE  SameStore(be, p.be)
    <3>1. Leaves(be, p.be)
      BY <1>1, RecipientOutcome
    <3> QED BY <3>1, StoreStays DEF Leaves
  <2>5. SameVerdicts
    <3>1. CASE mail' = [mail EXCEPT ![sess.n].offer.to = Append(@, a)]
      BY <1>1, <3>1, Parameters DEF SameVerdicts, Mail
    <3> QED BY <2>2, <3>1 DEF SameVerdicts
  <2> QED BY <1>2, <2>3, <2>4, <2>5 DEF Dialogue
<1> QED BY <1>3, <1>4, <1>5, <1>6, <1>7

\* The next message is begun, and nothing is stored of it.
LEMMA BodyStartsTells ==
  ASSUME Inductive, BodyStarts
  PROVE  Dialogue
<1>1. /\ pc = "package" /\ sess \in Session /\ mail \in [Number -> Mail] /\ Fresh(sess, mail)
      /\ be \in QueuedirState /\ be.phase = "idle"
  BY WhileOpen DEF BodyStarts
<1>2. SameStore(be, be)
  BY DEF SameStore
<1>3. CASE ~ response_ok(resp)
  BY <1>2, <1>3 DEF BodyStarts, Dialogue, SameVerdicts
<1>4. CASE response_ok(resp)
  <2>1. PICK n : n = sess.n + 1
    OBVIOUS
  <2>2. sess.n < MaxMessages /\ n \in Number /\ n \in Message /\ n > sess.n
    BY <1>1, <1>4, <2>1, Parameters DEF BodyStarts, Session, Number
  <2>3. PICK answers \in Chains : \E o \in handle_data_start(sess, be, answers) :
          /\ Becomes(o)
          /\ mail' = [mail EXCEPT ![o.sess.n] = [NoMail EXCEPT !.verdict = "open"]]
    BY <1>4 DEF BodyStarts
  <2>4. PICK o \in handle_data_start(sess, be, answers) :
          /\ be' = o.be
          /\ mail' = [mail EXCEPT ![o.sess.n] = [NoMail EXCEPT !.verdict = "open"]]
    BY <2>3 DEF Becomes
  <2>5. /\ o.sess.n = n
        /\ \/ o.be = be
           \/ \E fd : \E p \in queuedir_data_start(be, fd, n) :
                o.be = queuedir_reset(p.be) \/ o.be = p.be
    <3>1. answers \in Seq(Response)
      BY Parameters
    <3> QED BY <1>1, <2>1, <2>2, <2>4, <3>1, DataStartHandled
  <2>6. ASSUME NEW fd, NEW p \in queuedir_data_start(be, fd, n)
        PROVE  SameStore(be, p.be) /\ SameStore(be, queuedir_reset(p.be))
    <3>1. Leaves(be, p.be) /\ p.be.phase = be.phase
      BY <1>1, <2>2, DataStartOutcome
    <3> QED BY <1>1, <3>1, ResetStoresNothing
  <2>7. SameStore(be, be')
    BY <1>2, <2>4, <2>5, <2>6
  <2>8. mail[n].verdict = "none"
    BY <1>1, <2>2 DEF Fresh
  <2>9. mail'[n].verdict = "open" /\ \A k \in Message : k # n => mail'[k] = mail[k]
    BY <1>1, <2>2, <2>4, <2>5, Parameters DEF NoMail
  <2>10. Tells(n, "open")
    BY <2>8, <2>9 DEF Tells
  <2> QED BY <2>2, <2>7, <2>10 DEF Dialogue
<1> QED BY <1>3, <1>4

\* Only the message of the package that stands open is told anything.
LEMMA VerdictsTell ==
  ASSUME Inductive, NEW v \in {"ack", "nak", "cut", "unknown"}, Verdicts(v)
  PROVE  \/ mail' = mail /\ ~ (sess.n \in Number /\ mail[sess.n].verdict = "open")
         \/ sess.n \in Message /\ Tells(sess.n, v)
<1>1. PICK n : n = sess.n
  OBVIOUS
<1>2. mail \in [Number -> Mail] /\ v \in Verdict /\ Number = Message
  BY Parameters DEF Inductive, Holds, Verdict
<1>3. mail' = Told(mail, n, v)
  BY <1>1 DEF Verdicts, Told
<1>4. /\ \A k \in Number : k # n => mail'[k] = mail[k]
      /\ n \in Number /\ mail[n].verdict = "open" => mail'[n].verdict = v
      /\ ~ (n \in Number /\ mail[n].verdict = "open") => mail' = mail
  BY <1>2, <1>3, ToldOutcome
<1>5. CASE n \in Number /\ mail[n].verdict = "open"
  BY <1>1, <1>2, <1>4, <1>5 DEF Tells
<1>6. CASE ~ (n \in Number /\ mail[n].verdict = "open")
  BY <1>1, <1>4, <1>6
<1> QED BY <1>5, <1>6

\* An answer, which ends the session if there is one package only.
LEMMA RespondsTell ==
  ASSUME Inductive, pc \in {"recips", "ending"}, NEW o, o.sess \in Session, Responds(o),
         Directory(o.be), Live(o.be), ~ Linking(o.be),
         \/ SameStore(be, o.be)
         \/ /\ ~ response_ok(o.resp) /\ MayRemove(be, o.be, sess.n)
            /\ sess.n \in Number /\ mail[sess.n].verdict = "open"
  PROVE  Dialogue
<1>1. SameStore(o.be, be')
  <2>1. SameStore(o.be, o.be) /\ SameStore(o.be, queuedir_reset(o.be))
    BY ResetStores DEF SameStore
  <2>2. be' = o.be \/ be' = exitfn(o.sess, o.be).be
    BY DEF Responds, Becomes, Exits
  <2> QED BY <2>1, <2>2, ExitHandled
<1>2. PICK v : v = IF response_ok(o.resp) THEN "ack" ELSE "nak"
  OBVIOUS
<1>3. v \in {"ack", "nak"} /\ v \in {"ack", "nak", "cut", "unknown"} /\ Verdicts(v)
  BY <1>2 DEF Responds
<1>4. \/ mail' = mail /\ ~ (sess.n \in Number /\ mail[sess.n].verdict = "open")
      \/ sess.n \in Message /\ Tells(sess.n, v)
  BY <1>3, VerdictsTell
<1>5. Promised(be')
  <2>1. Promised(o.be)
    BY DEF Live, Promised
  <2> QED BY <1>1, <2>1 DEF SameStore
<1>6. CASE SameStore(be, o.be)
  <2>1. SameStore(be, be')
    BY <1>1, <1>6 DEF SameStore
  <2>2. CASE mail' = mail
    BY <2>1, <2>2 DEF Dialogue, SameVerdicts
  <2>3. CASE sess.n \in Message /\ Tells(sess.n, v)
    BY <1>3, <1>5, <2>1, <2>3 DEF Dialogue, SameStore, MayRemove
  <2> QED BY <1>4, <2>2, <2>3
<1>7. CASE /\ ~ response_ok(o.resp) /\ MayRemove(be, o.be, sess.n)
           /\ sess.n \in Number /\ mail[sess.n].verdict = "open"
  <2>1. MayRemove(be, be', sess.n)
    BY <1>1, <1>7 DEF SameStore, MayRemove
  <2>2. sess.n \in Message /\ Tells(sess.n, "nak")
    BY <1>2, <1>4, <1>7
  <2> QED BY <2>1, <2>2 DEF Dialogue
<1> QED BY <1>6, <1>7

\* Nothing is stored when the end of a message begins.
LEMMA PackageEndsTells ==
  ASSUME Inductive, PackageEnds
  PROVE  Dialogue
<1>1. /\ pc = "recips" /\ sess \in Session /\ be \in QueuedirState /\ be.phase = "idle"
      /\ Directory(be) /\ Live(be) /\ ~ Linking(be)
  BY WhileOpen DEF PackageEnds
<1>2. SameStore(be, be)
  BY DEF SameStore
<1>3. ASSUME NEW o, o.sess \in Session, Responds(o),
             o.be \in {be, queuedir_reset(be)}
               \/ \E p : Leaves(be, p) /\ p.phase = be.phase /\ o.be = queuedir_reset(p)
      PROVE  Dialogue
  <2>1. Directory(o.be) /\ Live(o.be) /\ ~ Linking(o.be) /\ SameStore(be, o.be)
    <3>1. CASE o.be = be
      BY <1>1, <1>2, <3>1
    <3>2. CASE o.be = queuedir_reset(be)
      <4>1. PICK c : c = queuedir_reset(be)
        OBVIOUS
      <4>2. Clear(c, mail, Bodies(mail), Now(pc, sess, be))
        BY <1>1, <4>1, ResetIsClear
      <4> QED BY <1>1, <3>2, <4>1, <4>2, ResetStoresNothing DEF Clear, Linking
    <3>3. ASSUME NEW p, Leaves(be, p), p.phase = be.phase, o.be = queuedir_reset(p)
          PROVE  Directory(o.be) /\ Live(o.be) /\ ~ Linking(o.be) /\ SameStore(be, o.be)
      <4>1. PICK d : d = queuedir_reset(p)
        OBVIOUS
      <4>2. Clear(d, mail, Bodies(mail), 0)
        BY <1>1, <3>3, <4>1, LeftOrReset
      <4> QED BY <1>1, <3>3, <4>1, <4>2, ResetStoresNothing DEF Clear, Linking
    <3> QED BY <1>3, <3>1, <3>2, <3>3
  <2> QED BY <1>1, <1>3, <2>1, RespondsTell
<1>4. CASE ~ response_ok(resp)
  <2>1. PICK o : o = Outcome(sess, be, resp)
    OBVIOUS
  <2>2. o.sess = sess /\ o.be = be /\ Responds(o)
    BY <1>4, <2>1 DEF PackageEnds, Outcome
  <2> QED BY <1>1, <1>3, <2>2
<1>5. CASE response_ok(resp)
  <2>1. PICK answers \in Chains : \E o \in handle_message_end(sess, be, answers) : Answers(o)
    BY <1>5 DEF PackageEnds
  <2>2. PICK o \in handle_message_end(sess, be, answers) : Answers(o)
    BY <2>1
  <2>3. /\ o.sess \in Session
        /\ \/ o.be \in {be, queuedir_reset(be)} /\ o.resp # "busy"
           \/ \E p \in queuedir_message_end(be, sess.fd, sess.file) :
                /\ o.resp = p.resp
                /\ o.be = IF response_ok(p.resp) THEN p.be ELSE queuedir_reset(p.be)
    <3>1. answers \in Seq(Response)
      BY Parameters
    <3> QED BY <1>1, <2>2, <3>1, MessageEndHandled DEF Response
  <2>4. CASE o.be \in {be, queuedir_reset(be)} /\ o.resp # "busy"
    BY <1>3, <2>2, <2>3, <2>4 DEF Answers
  <2>5. ASSUME NEW p \in queuedir_message_end(be, sess.fd, sess.file), o.resp = p.resp,
               o.be = IF response_ok(p.resp) THEN p.be ELSE queuedir_reset(p.be)
        PROVE  Dialogue
    <3>1. /\ Leaves(be, p.be)
          /\ p.resp = "busy" \/ (p.resp = "temp" /\ p.be.phase = be.phase)
      BY <1>1, MessageEndOutcome
    <3>2. CASE p.resp = "busy"
      <4>1. be' = p.be /\ mail' = mail
        BY <2>2, <2>5, <3>2 DEF Answers, Becomes, response_ok
      <4>2. SameStore(be, p.be)
        BY <3>1, StoreStays DEF Leaves
      <4> QED BY <4>1, <4>2 DEF Dialogue, SameVerdicts
    <3>3. CASE p.resp = "temp" /\ p.be.phase = be.phase
      <4>1. Responds(o) /\ o.be = queuedir_reset(p.be)
        BY <2>2, <2>5, <3>3 DEF Answers, response_ok
      <4> QED BY <1>3, <2>3, <3>1, <3>3, <4>1
    <3> QED BY <3>1, <3>2, <3>3
  <2> QED BY <2>3, <2>4, <2>5
<1> QED BY <1>4, <1>5

\* A step of message_end stores the message, or answers it; the client hears of a
\* failure after the file is removed.
LEMMA EndGoesOnImplements ==
  ASSUME Inductive, EndGoesOn, Inductive'
  PROVE  [Promise!Next]_(Promise!vars)
<1>1. PICK now : now = Now(pc, sess, be)
  OBVIOUS
<1>2. /\ Files(be, mail, Bodies(mail), now) /\ Current(be, mail, now)
      /\ Directory(be) /\ Live(be) /\ sess \in Session
  BY <1>1, WhileOpen DEF EndGoesOn
<1>3. /\ pc = "ending" /\ be.phase # "idle" /\ EndIsSafe(be, Bodies(mail))
      /\ be.n = sess.n /\ be.n \in Message /\ sess.n \in Number /\ mail[be.n].verdict = "open"
  BY Parameters DEF EndGoesOn, Inductive, Holds, Arriving
<1>4. PICK o \in handle_message_end_goes_on(sess, be) : Answers(o)
  BY DEF EndGoesOn
<1>5. PICK p \in queuedir_message_end_goes_on(be) : o = MessageEnded(sess, p.be, p.resp)
  BY <1>4 DEF handle_message_end_goes_on
<1>6. \/ p.resp = "busy" /\ MayAdd(be, p.be, be.n)
      \/ p.resp = "none" /\ SameStore(be, p.be)
      \/ p.resp = "temp" /\ MayRemove(be, p.be, be.n)
  BY <1>2, <1>3, GoesOnStores
<1>7. /\ Directory(p.be) /\ Live(p.be)
      /\ p.resp # "busy" => ~ p.be.tlen /\ ~ p.be.dlen /\ p.be.phase = "idle"
  BY <1>2, <1>3, GoesOnOutcome DEF Clear
<1>8. o.sess \in Session /\ o.resp = p.resp /\ o.be = p.be
  <2>1. /\ o.sess \in Session /\ o.resp = p.resp
        /\ o.be = IF response_ok(p.resp) THEN p.be ELSE queuedir_reset(p.be)
    BY <1>2, <1>5, <1>6, Ended
  <2>2. p.resp # "busy" => queuedir_reset(p.be) = p.be
    BY <1>7, ResetAgain DEF Directory
  <2> QED BY <1>6, <2>1, <2>2 DEF response_ok
<1>9. CASE p.resp = "busy" /\ MayAdd(be, p.be, be.n)
  <2>1. mail' = mail /\ be' = p.be
    BY <1>4, <1>8, <1>9 DEF Answers, Becomes
  <2>2. CASE StoredMessages(be') = StoredMessages(be)
    BY <1>9, <2>1, <2>2 DEF MayAdd, Promise!vars
  <2>3. CASE StoredMessages(be') = StoredMessages(be) \cup {be.n}
    <3>1. Promise!Store(be.n)
      BY <1>3, <1>9, <2>1, <2>3 DEF MayAdd, Promise!Store
    <3> QED BY <1>3, <3>1 DEF Promise!Next
  <2> QED BY <1>9, <2>1, <2>2, <2>3 DEF MayAdd
<1>10. CASE p.resp # "busy"
  <2>1. Responds(o) /\ ~ Linking(o.be)
    BY <1>4, <1>7, <1>8, <1>10 DEF Answers, Linking
  <2>2. Dialogue
    BY <1>3, <1>6, <1>7, <1>8, <1>10, <2>1, RespondsTell DEF response_ok
  <2> QED BY <2>2, DialogueImplements
<1> QED BY <1>6, <1>9, <1>10

\* The end of the session removes what is linked and not answered.
LEMMA EndsTell ==
  ASSUME Inductive, Leave \/ Alarm \/ Killed
  PROVE  Dialogue
<1>1. /\ pc # "closed" /\ pc' = "closed" /\ Verdicts(Fate(pc))
      /\ sess \in Session /\ be \in QueuedirState /\ Directory(be) /\ Live(be)
  <2>1. pc # "closed" /\ pc' = "closed" /\ Verdicts(Fate(pc))
    BY DEF Leave, Alarm, Killed, Exits, Fate
  <2> QED BY <2>1, WhileOpen
<1>2. /\ MayRemove(be, be', be.n)
      /\ pc # "ending" => SameStore(be, be')
  <2>1. CASE Killed
    <3>1. PICK c : c = [be EXCEPT !.fate = "killed"]
      OBVIOUS
    <3>2. /\ be' = c /\ c.new = be.new /\ c.taken = be.taken /\ c.fate # "down"
          /\ be.fate # "down"
      BY <1>1, <2>1, <3>1 DEF Killed, QueuedirState, Live
    <3> QED BY <3>2 DEF MayRemove, SameStore, StoredMessages, Stored, Promised
  <2>2. CASE Leave \/ Alarm
    <3>1. be' = queuedir_reset(be)
      BY <1>1, <2>2, ExitHandled DEF Leave, Alarm, Exits, Becomes, Outcome
    <3> QED BY <1>1, <3>1, ResetStores, ResetStoresNothing
  <2> QED BY <2>1, <2>2
<1>3. PICK v \in {"cut", "unknown"} : v = Fate(pc)
  BY DEF Fate
<1>4. \/ mail' = mail /\ ~ (sess.n \in Number /\ mail[sess.n].verdict = "open")
      \/ sess.n \in Message /\ Tells(sess.n, v)
  BY <1>1, <1>3, VerdictsTell
<1>5. CASE pc # "ending"
  <2>1. MayRemove(be, be', sess.n) /\ SameStore(be, be')
    BY <1>2, <1>5 DEF SameStore, MayRemove
  <2>2. CASE mail' = mail
    BY <2>1, <2>2 DEF Dialogue, SameVerdicts
  <2>3. CASE sess.n \in Message /\ Tells(sess.n, v)
    BY <1>1, <2>1, <2>3 DEF Dialogue
  <2> QED BY <1>4, <2>2, <2>3
<1>6. CASE pc = "ending"
  <2>1. sess.n \in Number /\ mail[sess.n].verdict = "open" /\ be.n = sess.n
    BY <1>6 DEF Inductive, Holds, Arriving
  <2>2. sess.n \in Message /\ Tells(sess.n, v)
    BY <1>4, <2>1
  <2> QED BY <1>1, <1>2, <2>1, <2>2 DEF Dialogue
<1> QED BY <1>5, <1>6

\* What is taken stays stored.
LEMMA TakenTells ==
  ASSUME Inductive, Taken
  PROVE  Dialogue
<1>1. PICK c \in Takes(be) : be' = c /\ be.fate # "down"
  BY DEF Taken
<1>2. Directory(be) /\ Files(be, mail, Bodies(mail), Now(pc, sess, be))
  BY DEF Inductive, Holds
<1>3. Stored(c) = Stored(be) /\ c.sync = be.sync /\ c.fate = be.fate
  BY <1>1, <1>2, TakesOutcome
<1> QED BY <1>1, <1>3 DEF Taken, Dialogue, SameVerdicts, SameStore, StoredMessages, Promised

\* A power failure is one of Submission's.
LEMMA PowerLostImplements ==
  ASSUME Inductive, PowerLost, Inductive'
  PROVE  Promise!Next
<1>1. PICK c \in PowerFails(be) : be' = c /\ be.fate # "down"
  BY DEF PowerLost
<1>2. Directory(be) /\ Files(be, mail, Bodies(mail), Now(pc, sess, be))
  BY DEF Inductive, Holds
<1>3. StoredMessages(be') \subseteq StoredMessages(be) /\ Promised(be)
  BY <1>1, <1>2, PowerFailsStores
<1>4. Promised(be') => \A k \in Message : mail[k].verdict = "ack" => k \in StoredMessages(be')
  BY <1>1, <1>2, PowerFailsStores
<1>5. pc' = "closed" /\ Verdicts(Fate(pc))
  BY DEF PowerLost, Fate
<1>6. PICK v \in {"cut", "unknown"} : v = Fate(pc)
  BY DEF Fate
<1>7. mail' = mail \/ (sess.n \in Message /\ Tells(sess.n, v))
  BY <1>5, <1>6, VerdictsTell
<1>8. CASE mail' = mail
  BY <1>3, <1>4, <1>8 DEF Promise!PowerFails, Promise!Next
<1>9. CASE sess.n \in Message /\ Tells(sess.n, v)
  <2>1. PICK n : n = sess.n
    OBVIOUS
  <2>2. n \in Message /\ Tells(n, v)
    BY <1>9, <2>1
  <2>3. v = "cut" => n \notin StoredMessages(be')
    <3>1. v = "cut" => mail'[n].verdict = "cut"
      BY <2>2 DEF Tells
    <3>2. \A k \in Message :
            pc' = "closed" /\ mail'[k].verdict = "cut" => k \notin StoredMessages(be')
      BY StoreIsTold DEF Inductive
    <3> QED BY <1>5, <2>2, <3>1, <3>2
  <2>4. Promise!Cut(n)
    <3>1. Promise!Tells(n, v) /\ mail[n].verdict = "open"
      BY <2>2 DEF Tells, Promise!Tells
    <3> QED BY <2>2, <2>3, <3>1 DEF Promise!Cut
  <2>5. Promise!PowerFails
    BY <1>3, <1>4, <2>2, <2>4 DEF Promise!PowerFails
  <2> QED BY <2>5 DEF Promise!Next
<1> QED BY <1>7, <1>8, <1>9

\* Every step is one of Submission's or changes nothing of it.
LEMMA NextImplements ==
  ASSUME Inductive, [Next]_vars, Inductive'
  PROVE  [Promise!Next]_(Promise!vars)
<1>1. CASE \/ Package \/ BlockArrives \/ BlockHandled
           \/ \E a \in Address : get_sender(a) \/ Recipient(a)
  BY <1>1, NothingTold, DialogueImplements
<1>2. CASE BodyStarts
  BY <1>2, BodyStartsTells, DialogueImplements
<1>3. CASE PackageEnds
  BY <1>3, PackageEndsTells, DialogueImplements
<1>4. CASE EndGoesOn
  BY <1>4, EndGoesOnImplements
<1>5. CASE Leave \/ Alarm \/ Killed
  BY <1>5, EndsTell, DialogueImplements
<1>6. CASE Taken
  BY <1>6, TakenTells, DialogueImplements
<1>7. CASE PowerLost
  BY <1>7, PowerLostImplements
<1>8. CASE UNCHANGED vars
  BY <1>8 DEF vars, Promise!vars
<1> QED BY <1>1, <1>2, <1>3, <1>4, <1>5, <1>6, <1>7, <1>8 DEF Next, QmtpNext

\* A new session is a new one of Submission's.
LEMMA InitImplements ==
  ASSUME Init
  PROVE  Promise!Init
<1>1. PICK sync \in BOOLEAN : QmtpInit(QueuedirInit(sync))
  BY DEF Init
<1>2. be = QueuedirInit(sync) /\ mail = [n \in Number |-> NoMail]
  BY <1>1 DEF QmtpInit
<1>3. be.new = {} /\ be.taken = {} /\ be.fate = "up"
  BY <1>2 DEF QueuedirInit
<1>4. StoredMessages(be) = {} /\ Promised(be) = TRUE
  BY <1>3 DEF StoredMessages, Stored, Promised
<1>5. \A k \in Message : mail[k].verdict = "none"
  BY <1>2, Parameters DEF NoMail
<1> QED BY <1>4, <1>5 DEF Promise!Init

(***************************************************************************)
(* The packages over the directory keep the promise of Submission, whether *)
(* there is one or many: what the client is told of a package is true of   *)
(* the store and stays so.                                                 *)
(***************************************************************************)
THEOREM Implementation == Spec => ImplementsSubmission
<1>1. Init => Inductive /\ Promise!Init
  BY InitEstablishes, InitImplements
<1>2. Inductive /\ [Next]_vars => Inductive' /\ [Promise!Next]_(Promise!vars)
  BY NextPreserves, NextImplements
<1>3. Spec => Promise!Init /\ [][Promise!Next]_(Promise!vars)
  BY <1>1, <1>2, PTL DEF Spec
<1> QED BY <1>3 DEF ImplementsSubmission, Promise!Spec

=============================================================================
