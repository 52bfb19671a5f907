-------------------------- MODULE QmailBackend_proof --------------------------
(***************************************************************************)
(* What each hook of backend-qmail.c returns and leaves alone, for every   *)
(* state of the backend.                                                   *)
(***************************************************************************)
EXTENDS QmailBackend, TLAPS

USE QmailAssumption

\* The empty envelope is an envelope.
LEMMA EmptyEnv == <<>> \in Seq(Entry)
  OBVIOUS

\* What do_sender and do_recipient append are entries.
LEMMA EntryTypes ==
  ASSUME NEW a \in Address
  PROVE  From(a) \in Entry /\ To(a) \in Entry /\ Torn(a) \in Entry
  BY DEF Entry

\* So are the closing NUL and the text of an answer.
LEMMA MarkTypes == EndMark \in Entry /\ Text \in Entry
  BY DEF Entry

\* A message with no process yet is well typed.
LEMMA NoProcessType == NoProcess \in QmailQueue
  BY EmptyEnv DEF NoProcess, QmailQueue

\* The statics of backend-qmail.c start well typed.
LEMMA InitType == QmailInit \in QmailState
  BY EmptyEnv, NoProcessType DEF QmailInit, QmailState, Message

\* Closing write ends leaves well typed processes.
LEMMA WithoutPipesType ==
  ASSUME NEW qq \in [Message -> QmailQueue], NEW e, NEW m
  PROVE  WithoutPipes(qq, e, m) \in [Message -> QmailQueue]
  BY DEF WithoutPipes, QmailQueue

\* close_qqpipe leaves a well typed backend.
LEMMA CloseType ==
  ASSUME NEW b \in QmailState
  PROVE  close_qqpipe(b) \in QmailState
<1>1. WithoutPipes(b.qq, b.epipe, b.mpipe) \in [Message -> QmailQueue]
  BY WithoutPipesType DEF QmailState
<1>2. 0 \in 0 .. MaxMessages
  OBVIOUS
<1> QED BY <1>1, <1>2 DEF close_qqpipe, QmailState

\* reset leaves a well typed backend with an empty buffer.
LEMMA ResetType ==
  ASSUME NEW b \in QmailState
  PROVE  /\ reset(b) \in QmailState
         /\ reset(b).buf = <<>>
  BY CloseType, EmptyEnv DEF reset, QmailState

-----------------------------------------------------------------------------
(* What each hook returns, and what it leaves alone                        *)

\* Assigning the buffer changes nothing else.
LEMMA BufferUpdate ==
  ASSUME NEW b \in QmailState, NEW c \in Seq(Entry)
  PROVE  LET d == [b EXCEPT !.buf = c]
         IN  d \in QmailState /\ d.buf = c /\ d.qq = b.qq /\ d.epipe = b.epipe
  BY DEF QmailState

\* do_sender appends the sender, or fails with a torn entry; no process sees
\* it.
LEMMA SenderOutcome ==
  ASSUME NEW b \in QmailState, NEW a \in Address, NEW o \in do_sender(b, a)
  PROVE  /\ o.be \in QmailState
         /\ o.resp \in {"none", "temp"}
         /\ o.be.qq = b.qq
         /\ \/ o.resp = "none" /\ o.be.buf = Append(b.buf, From(a))
            \/ o.resp = "temp" /\ o.be.buf = Append(b.buf, Torn(a))
<1>1. Append(b.buf, From(a)) \in Seq(Entry) /\ Append(b.buf, Torn(a)) \in Seq(Entry)
  BY EntryTypes DEF QmailState
<1>2. CASE o = Returns([b EXCEPT !.buf = Append(b.buf, From(a))], "none")
  BY <1>1, <1>2, BufferUpdate DEF Returns
<1>3. CASE o = Returns([b EXCEPT !.buf = Append(b.buf, Torn(a))], "temp")
  BY <1>1, <1>3, BufferUpdate DEF Returns
<1> QED BY <1>2, <1>3 DEF do_sender, MayFail

\* do_recipient appends the recipient; only want of memory makes it fail.
LEMMA RecipientOutcome ==
  ASSUME NEW b \in QmailState, NEW a \in Address, NEW o \in do_recipient(b, a)
  PROVE  /\ o.be \in QmailState
         /\ o.resp \in {"none", "temp"}
         /\ o.be.qq = b.qq
         /\ \/ o.resp = "none" /\ o.be.buf = Append(b.buf, To(a))
            \/ "oom" \in QmailFaults
<1>1. Append(b.buf, To(a)) \in Seq(Entry) /\ Append(b.buf, Torn(a)) \in Seq(Entry)
  BY EntryTypes DEF QmailState
<1>2. CASE o = Returns([b EXCEPT !.buf = Append(b.buf, To(a))], "none")
  BY <1>1, <1>2, BufferUpdate DEF Returns
<1>3. CASE o = Returns([b EXCEPT !.buf = Append(b.buf, Torn(a))], "temp")
           /\ "oom" \in QmailFaults
  BY <1>1, <1>3, BufferUpdate DEF Returns
<1> QED BY <1>2, <1>3 DEF do_recipient, MayFail

(***************************************************************************)
(* What the hooks after the envelope's do to the processes: none of them   *)
(* queues anything, and an envelope stays or is forgotten unqueued.        *)
(***************************************************************************)
KeepsOne(q, r) ==
  /\ r.queued = q.queued
  /\ r.env = q.env \/ (r.env = <<>> /\ ~ r.queued)

Keeps(qq, rr) == \A k \in Message : KeepsOne(qq[k], rr[k])

\* Closing write ends queues nothing and touches no envelope.
LEMMA WithoutPipesKeeps ==
  ASSUME NEW qq \in [Message -> QmailQueue], NEW e, NEW m
  PROVE  Keeps(qq, WithoutPipes(qq, e, m))
<1> SUFFICES ASSUME NEW k \in Message
             PROVE  KeepsOne(qq[k], WithoutPipes(qq, e, m)[k])
  BY DEF Keeps
<1>1. WithoutPipes(qq, e, m)[k] = [qq[k] EXCEPT !.eopen = qq[k].eopen /\ k # e,
                                                 !.mopen = qq[k].mopen /\ k # m]
  BY DEF WithoutPipes
<1>2. qq[k] \in QmailQueue
  OBVIOUS
<1> QED BY <1>1, <1>2 DEF KeepsOne, QmailQueue

\* Nor does close_qqpipe, which leaves the buffer.
LEMMA CloseKeeps ==
  ASSUME NEW b \in QmailState
  PROVE  /\ Keeps(b.qq, close_qqpipe(b).qq)
         /\ close_qqpipe(b).buf = b.buf
<1>1. /\ close_qqpipe(b).qq = WithoutPipes(b.qq, b.epipe, b.mpipe)
      /\ close_qqpipe(b).buf = b.buf
  BY DEF close_qqpipe, QmailState
<1>2. b.qq \in [Message -> QmailQueue]
  BY DEF QmailState
<1> QED BY <1>1, <1>2, WithoutPipesKeeps

\* Nor does reset.
LEMMA ResetKeeps ==
  ASSUME NEW b \in QmailState
  PROVE  Keeps(b.qq, reset(b).qq)
<1>1. reset(b).qq = close_qqpipe(b).qq
  BY CloseType DEF reset, QmailState
<1> QED BY <1>1, CloseKeeps

\* What two steps keep, the two together keep.
LEMMA KeepsTransitive ==
  ASSUME NEW p, NEW q, NEW r, Keeps(p, q), Keeps(q, r)
  PROVE  Keeps(p, r)
  BY DEF Keeps, KeepsOne

\* One process replaced by one with the same envelope and the same fate.
LEMMA ProcessUpdate ==
  ASSUME NEW b \in QmailState, NEW k \in 0 .. MaxMessages, NEW q \in QmailQueue,
         k \in Message => KeepsOne(b.qq[k], q)
  PROVE  /\ [b.qq EXCEPT ![k] = q] \in [Message -> QmailQueue]
         /\ Keeps(b.qq, [b.qq EXCEPT ![k] = q])
<1>1. b.qq \in [Message -> QmailQueue]
  BY DEF QmailState
<1> QED BY <1>1 DEF Keeps, KeepsOne

\* start_qq starts the process of message k or fails, and leaves the buffer.
LEMMA StartOutcome ==
  ASSUME NEW b \in QmailState, NEW k \in Message, NEW msg \in Nat,
         NEW o \in start_qq(b, k, msg)
  PROVE  /\ o.be \in QmailState
         /\ o.resp \in {"none", "temp"}
         /\ o.be.buf = b.buf
         /\ Keeps(b.qq, o.be.qq)
         /\ o.resp = "none" => o.be.epipe = b.epipe
<1> DEFINE q == [b.qq[k] EXCEPT !.st = "run", !.msg = msg]
           started == [b EXCEPT !.pid = k, !.qq = [b.qq EXCEPT ![k] = q]]
<1>1. CASE o = Returns([b EXCEPT !.pid = k, !.qq[k].st = "run", !.qq[k].msg = msg], "none")
  <2>1. q \in QmailQueue /\ KeepsOne(b.qq[k], q)
    BY ZenonT(60) DEF QmailState, QmailQueue, KeepsOne
  <2>2. [b EXCEPT !.pid = k, !.qq[k].st = "run", !.qq[k].msg = msg] = started
    BY DEF QmailState, QmailQueue
  <2>3. k \in 0 .. MaxMessages
    BY DEF Message
  <2>4. /\ [b.qq EXCEPT ![k] = q] \in [Message -> QmailQueue]
        /\ Keeps(b.qq, [b.qq EXCEPT ![k] = q])
    BY <2>1, <2>3, ProcessUpdate
  <2> QED BY <1>1, <2>2, <2>3, <2>4 DEF Returns, QmailState
<1>2. CASE o = Returns(b, "temp")
  BY <1>2 DEF Returns, Keeps, KeepsOne
<1>3. CASE o = Returns([close_qqpipe(b) EXCEPT !.pid = 0], "temp")
  <2>1. 0 \in 0 .. MaxMessages
    OBVIOUS
  <2> QED BY <1>3, <2>1, CloseType, CloseKeeps DEF Returns, QmailState
<1> QED BY <1>1, <1>2, <1>3 DEF start_qq, MayFail

\* Opening a pipe queues nothing and touches no envelope.
LEMMA OpenedKeeps ==
  ASSUME NEW q \in QmailQueue
  PROVE  /\ [q EXCEPT !.eopen = TRUE] \in QmailQueue
         /\ [q EXCEPT !.mopen = TRUE] \in QmailQueue
         /\ KeepsOne(q, [q EXCEPT !.eopen = TRUE])
         /\ KeepsOne(q, [q EXCEPT !.mopen = TRUE])
  BY DEF QmailQueue, KeepsOne

\* data_start leaves the buffer; when it succeeds, qqepipe is message k's.
LEMMA DataStartOutcome ==
  ASSUME NEW b \in QmailState, NEW fd \in BOOLEAN, NEW k \in Message,
         NEW o \in data_start(b, fd, k)
  PROVE  /\ o.be \in QmailState
         /\ o.resp \in {"none", "temp"}
         /\ o.be.buf = b.buf
         /\ Keeps(b.qq, o.be.qq)
         /\ o.resp = "none" => o.be.epipe = k
<1> DEFINE oneOpen  == [b EXCEPT !.epipe = k, !.qq[k].eopen = TRUE]
           bothOpen == [oneOpen EXCEPT !.mpipe = k, !.qq[k].mopen = TRUE]
<1>1. k \in 0 .. MaxMessages
  BY DEF Message
<1>2. ASSUME NEW c \in QmailState, NEW q \in QmailQueue, KeepsOne(c.qq[k], q)
      PROVE  Keeps(c.qq, [c.qq EXCEPT ![k] = q]) /\ [c.qq EXCEPT ![k] = q] \in [Message -> QmailQueue]
  BY <1>1, <1>2, ProcessUpdate
<1>3. /\ oneOpen \in QmailState /\ oneOpen.buf = b.buf /\ oneOpen.epipe = k
      /\ Keeps(b.qq, oneOpen.qq)
  <2>1. [b.qq[k] EXCEPT !.eopen = TRUE] \in QmailQueue
        /\ KeepsOne(b.qq[k], [b.qq[k] EXCEPT !.eopen = TRUE])
    BY OpenedKeeps DEF QmailState
  <2>2. oneOpen = [b EXCEPT !.epipe = k, !.qq = [b.qq EXCEPT ![k] = [b.qq[k] EXCEPT !.eopen = TRUE]]]
    BY DEF QmailState, QmailQueue
  <2> QED BY <1>1, <1>2, <2>1, <2>2 DEF QmailState
<1>4. /\ bothOpen \in QmailState /\ bothOpen.buf = b.buf /\ bothOpen.epipe = k
      /\ Keeps(b.qq, bothOpen.qq)
  <2> HIDE DEF oneOpen
  <2>0. oneOpen.qq[k] \in QmailQueue
    BY <1>3 DEF QmailState
  <2>1. [oneOpen.qq[k] EXCEPT !.mopen = TRUE] \in QmailQueue
        /\ KeepsOne(oneOpen.qq[k], [oneOpen.qq[k] EXCEPT !.mopen = TRUE])
    BY <2>0, OpenedKeeps
  <2>2. bothOpen = [oneOpen EXCEPT !.mpipe = k,
                      !.qq = [oneOpen.qq EXCEPT ![k] = [oneOpen.qq[k] EXCEPT !.mopen = TRUE]]]
    BY <1>3 DEF QmailState, QmailQueue
  <2>3. Keeps(oneOpen.qq, bothOpen.qq) /\ bothOpen \in QmailState
        /\ bothOpen.buf = b.buf /\ bothOpen.epipe = k
    BY <1>1, <1>2, <1>3, <2>1, <2>2 DEF QmailState
  <2> QED BY <1>3, <2>3, KeepsTransitive
<1> HIDE DEF oneOpen, bothOpen
<1>5. CASE o = Returns(b, "temp")
  BY <1>5 DEF Returns, Keeps, KeepsOne
<1>6. CASE o = Returns(oneOpen, "none")
  BY <1>3, <1>6 DEF Returns
<1>7. CASE o = Returns(close_qqpipe(oneOpen), "temp")
  <2>1. Keeps(oneOpen.qq, close_qqpipe(oneOpen).qq)
        /\ close_qqpipe(oneOpen) \in QmailState /\ close_qqpipe(oneOpen).buf = b.buf
    BY <1>3, CloseKeeps, CloseType
  <2> QED BY <1>3, <1>7, <2>1, KeepsTransitive DEF Returns
<1>8. CASE o \in start_qq(bothOpen, k, 0)
  <2>1. /\ o.be \in QmailState /\ o.resp \in {"none", "temp"} /\ o.be.buf = b.buf
        /\ Keeps(bothOpen.qq, o.be.qq)
        /\ o.resp = "none" => o.be.epipe = k
    BY <1>4, <1>8, StartOutcome
  <2> QED BY <1>4, <2>1, KeepsTransitive
<1> QED BY <1>5, <1>6, <1>7, <1>8 DEF data_start, MayFail, oneOpen, bothOpen

\* Counting blocks or entries queues nothing and touches no envelope.
LEMMA CountedKeeps ==
  ASSUME NEW q \in QmailQueue, NEW n \in Nat
  PROVE  /\ [q EXCEPT !.msg = n]  \in QmailQueue /\ KeepsOne(q, [q EXCEPT !.msg = n])
         /\ [q EXCEPT !.got = n]  \in QmailQueue /\ KeepsOne(q, [q EXCEPT !.got = n])
         /\ [q EXCEPT !.sent = n] \in QmailQueue /\ KeepsOne(q, [q EXCEPT !.sent = n])
         /\ [q EXCEPT !.read = n] \in QmailQueue /\ KeepsOne(q, [q EXCEPT !.read = n])
  BY DEF QmailQueue, KeepsOne

\* The backend with process k replaced.
LEMMA StateUpdate ==
  ASSUME NEW b \in QmailState, NEW k \in 0 .. MaxMessages, NEW q \in QmailQueue,
         k \in Message => KeepsOne(b.qq[k], q)
  PROVE  LET d == [b EXCEPT !.qq = [b.qq EXCEPT ![k] = q]]
         IN  /\ d \in QmailState /\ d.buf = b.buf /\ d.epipe = b.epipe
             /\ d.mpipe = b.mpipe /\ d.pid = b.pid
             /\ d.qq = [b.qq EXCEPT ![k] = q]
             /\ Keeps(b.qq, d.qq)
<1>1. /\ [b.qq EXCEPT ![k] = q] \in [Message -> QmailQueue]
      /\ Keeps(b.qq, [b.qq EXCEPT ![k] = q])
  BY ProcessUpdate
<1> QED BY <1>1 DEF QmailState

\* data_block leaves the buffer and qqepipe.
LEMMA DataBlockOutcome ==
  ASSUME NEW b \in QmailState, NEW o \in data_block(b)
  PROVE  /\ o.be \in QmailState
         /\ o.resp \in {"none", "temp"}
         /\ o.be.buf = b.buf
         /\ o.be.epipe = b.epipe
         /\ Keeps(b.qq, o.be.qq)
<1> DEFINE q == [b.qq[b.mpipe] EXCEPT !.msg = @ + 1]
<1>1. CASE o.be = b /\ o.resp \in {"none", "temp"}
  BY <1>1 DEF Keeps, KeepsOne
<1>2. CASE /\ b.mpipe # 0
           /\ o = Returns([b EXCEPT !.qq[b.mpipe].msg = @ + 1], "none")
  <2>1. b.mpipe \in Message /\ b.mpipe \in 0 .. MaxMessages
    BY <1>2 DEF QmailState, Message
  <2>0. b.qq[b.mpipe] \in QmailQueue /\ b.qq[b.mpipe].msg + 1 \in Nat
    BY <2>1 DEF QmailState, QmailQueue
  <2>2. q \in QmailQueue /\ KeepsOne(b.qq[b.mpipe], q)
    BY <2>0, CountedKeeps
  <2>3. o.be = [b EXCEPT !.qq = [b.qq EXCEPT ![b.mpipe] = q]] /\ o.resp = "none"
    BY <1>2 DEF QmailState, QmailQueue, Returns
  <2> HIDE DEF q
  <2> QED BY <2>1, <2>2, <2>3, StateUpdate
<1> QED BY <1>1, <1>2 DEF data_block, MayFail, Returns

\* The message's own envelope is written out: the buffer and its last NUL.
LEMMA MessageEndOutcome ==
  ASSUME NEW b \in QmailState, b.epipe \in Message,
         NEW fd \in BOOLEAN, NEW file \in Nat,
         NEW o \in message_end(b, fd, file)
  PROVE  /\ o.be \in QmailState
         /\ o.resp \in {"busy", "temp"}
         /\ o.be.buf = b.buf
         /\ o.resp = "temp" => Keeps(b.qq, o.be.qq)
         /\ o.resp = "busy" =>
              \A k \in Message :
                IF k = b.epipe
                THEN /\ o.be.qq[k].env = Append(b.buf, EndMark)
                     /\ o.be.qq[k].queued = b.qq[k].queued
                ELSE KeepsOne(b.qq[k], o.be.qq[k])
<1> DEFINE closed == [b EXCEPT !.mpipe = 0, !.qq = WithoutPipes(b.qq, 0, b.mpipe)]
           write(c) == [c EXCEPT !.phase = "envelope",
                                 !.qq[c.epipe].env = Append(c.buf, EndMark)]
           started == IF fd THEN start_qq(b, b.epipe, file) ELSE {Returns(closed, "none")}
<1>1. CASE o = Returns(b, "temp")
  BY <1>1 DEF Returns, Keeps, KeepsOne
<1>2. ASSUME NEW p \in started
      PROVE  /\ p.be \in QmailState
             /\ p.resp \in {"none", "temp"}
             /\ p.be.buf = b.buf
             /\ Keeps(b.qq, p.be.qq)
             /\ p.resp = "none" => p.be.epipe = b.epipe
  <2>1. CASE fd
    BY <1>2, <2>1, StartOutcome
  <2>2. CASE ~ fd
    <3>1. b.qq \in [Message -> QmailQueue] /\ 0 \in 0 .. MaxMessages
      BY DEF QmailState
    <3>2. /\ WithoutPipes(b.qq, 0, b.mpipe) \in [Message -> QmailQueue]
          /\ Keeps(b.qq, WithoutPipes(b.qq, 0, b.mpipe))
      BY <3>1, WithoutPipesType, WithoutPipesKeeps
    <3>3. p = Returns(closed, "none")
      BY <1>2, <2>2
    <3> QED BY <3>1, <3>2, <3>3 DEF Returns, QmailState
  <2> QED BY <2>1, <2>2
<1>3. ASSUME NEW p \in started, response_ok(p.resp), o = Returns(write(p.be), "busy")
      PROVE  /\ o.be \in QmailState
             /\ o.be.buf = b.buf
             /\ o.resp = "busy"
             /\ \A k \in Message :
                  IF k = b.epipe
                  THEN /\ o.be.qq[k].env = Append(b.buf, EndMark)
                       /\ o.be.qq[k].queued = b.qq[k].queued
                  ELSE KeepsOne(b.qq[k], o.be.qq[k])
  <2> DEFINE c == p.be
             e == b.epipe
             q == [c.qq[e] EXCEPT !.env = Append(c.buf, EndMark)]
  <2>1. c \in QmailState /\ c.buf = b.buf /\ c.epipe = e /\ Keeps(b.qq, c.qq)
    BY <1>2, <1>3 DEF response_ok
  <2> HIDE DEF c
  <2>2. Append(c.buf, EndMark) \in Seq(Entry)
    BY <2>1, MarkTypes DEF QmailState
  <2>3. c.qq \in [Message -> QmailQueue] /\ c.qq[e] \in QmailQueue
    BY <2>1 DEF QmailState
  <2>4. q \in QmailQueue /\ q.env = Append(c.buf, EndMark) /\ q.queued = c.qq[e].queued
    BY <2>2, <2>3 DEF QmailQueue
  <2>5. o.be = [c EXCEPT !.phase = "envelope", !.qq = [c.qq EXCEPT ![e] = q]] /\ o.resp = "busy"
    BY <1>3, <2>1, <2>3 DEF c, Returns, QmailState
  <2>6. [c.qq EXCEPT ![e] = q] \in [Message -> QmailQueue]
    BY <2>3, <2>4
  <2> HIDE DEF q
  <2>7. o.be \in QmailState /\ o.be.buf = c.buf /\ o.be.qq = [c.qq EXCEPT ![e] = q]
    BY <2>1, <2>5, <2>6 DEF QmailState
  <2> QED BY <2>1, <2>3, <2>4, <2>5, <2>7 DEF Keeps, KeepsOne
<1>4. ASSUME NEW p \in started, ~ response_ok(p.resp), o = p
      PROVE  /\ o.be \in QmailState /\ o.resp = "temp" /\ o.be.buf = b.buf
             /\ Keeps(b.qq, o.be.qq)
  BY <1>2, <1>4 DEF response_ok
<1> HIDE DEF started, write
<1>5. \/ o = Returns(b, "temp")
      \/ \E p \in started : response_ok(p.resp) /\ o = Returns(write(p.be), "busy")
      \/ \E p \in started : ~ response_ok(p.resp) /\ o = p
  BY DEF message_end, MayFail, started, write
<1> QED BY <1>1, <1>3, <1>4, <1>5

\* Waiting for a process does not change what it queued.
LEMMA ReapedKeeps ==
  ASSUME NEW q \in QmailQueue
  PROVE  Reaped(q) \in QmailQueue /\ KeepsOne(q, Reaped(q))
  BY NoProcessType DEF Reaped, KeepsOne, NoProcess, QmailQueue

\* The rest of message_end leaves the buffer, or the text of a success.
LEMMA GoesOnOutcome ==
  ASSUME NEW b \in QmailState, NEW o \in message_end_goes_on(b)
  PROVE  /\ o.be \in QmailState
         /\ o.resp \in {"busy", "ok", "temp", "perm"}
         /\ Keeps(b.qq, o.be.qq)
         /\ o.resp = "busy" => o.be.buf = b.buf
         /\ o.resp = "ok"   => o.be.buf = <<Text>>
<1>1. CASE b.phase = "envelope"
  <2> DEFINE e == b.epipe
             q == b.qq[e]
  <2>1. CASE o = Returns([close_qqpipe(b) EXCEPT !.phase = "waitpid"], "busy")
    BY <2>1, CloseType, CloseKeeps DEF Returns, QmailState
  <2>2. CASE o = Returns([b EXCEPT !.phase = "idle"], "temp")
    BY <2>2 DEF Returns, QmailState, Keeps, KeepsOne
  <2>3. CASE o = Returns([b EXCEPT !.qq[e].sent = @ + 1], "busy")
    <3>1. CASE e \in Message
      <4>0. q \in QmailQueue /\ e \in 0 .. MaxMessages
        BY <3>1 DEF QmailState
      <4>1. q.sent + 1 \in Nat
        BY <4>0 DEF QmailQueue
      <4> DEFINE r == [q EXCEPT !.sent = q.sent + 1]
      <4>2. r \in QmailQueue /\ KeepsOne(q, r)
        BY <4>0, <4>1, CountedKeeps
      <4>3. o.be = [b EXCEPT !.qq = [b.qq EXCEPT ![e] = r]] /\ o.resp = "busy"
        BY <2>3 DEF Returns, QmailState
      <4> HIDE DEF r
      <4> QED BY <4>0, <4>2, <4>3, StateUpdate
    <3>2. CASE e \notin Message
      <4>1. o.be = b /\ o.resp = "busy"
        BY <2>3, <3>2 DEF Returns, QmailState
      <4> QED BY <4>1 DEF Keeps, KeepsOne
    <3> QED BY <3>1, <3>2
  <2> QED BY <1>1, <2>1, <2>2, <2>3 DEF message_end_goes_on, WriteEnvelope, MayFail
<1>2. CASE b.phase # "envelope"
  <2> DEFINE done == [b EXCEPT !.phase = "idle", !.qq[b.pid] = Reaped(@)]
  <2>1. done \in QmailState /\ Keeps(b.qq, done.qq)
    <3>1. CASE b.pid \in Message
      <4>1. b.qq[b.pid] \in QmailQueue
        BY <3>1 DEF QmailState
      <4>2. [b.qq EXCEPT ![b.pid] = Reaped(b.qq[b.pid])] \in [Message -> QmailQueue]
            /\ Keeps(b.qq, [b.qq EXCEPT ![b.pid] = Reaped(b.qq[b.pid])])
        BY <4>1, <3>1, ReapedKeeps, ProcessUpdate DEF QmailState
      <4>3. done = [b EXCEPT !.phase = "idle", !.qq = [b.qq EXCEPT ![b.pid] = Reaped(b.qq[b.pid])]]
        BY DEF QmailState
      <4> HIDE DEF done
      <4> QED BY <4>2, <4>3 DEF QmailState
    <3>2. CASE b.pid \notin Message
      <4>1. done = [b EXCEPT !.phase = "idle"]
        BY <3>2 DEF QmailState
      <4> HIDE DEF done
      <4> QED BY <4>1 DEF QmailState, Keeps, KeepsOne
    <3> QED BY <3>1, <3>2
  <2> HIDE DEF done
  <2>2. <<Text>> \in Seq(Entry)
    BY MarkTypes
  <2>3. [done EXCEPT !.buf = <<Text>>] \in QmailState
        /\ [done EXCEPT !.buf = <<Text>>].buf = <<Text>>
        /\ [done EXCEPT !.buf = <<Text>>].qq = done.qq
    BY <2>1, <2>2, BufferUpdate
  <2>4. CASE o = Returns([done EXCEPT !.buf = <<Text>>], "ok")
    BY <2>1, <2>3, <2>4 DEF Returns
  <2>5. CASE o \in {Returns(done, "perm"), Returns(done, "temp")}
    BY <2>1, <2>5 DEF Returns
  <2> QED BY <1>2, <2>4, <2>5 DEF message_end_goes_on, ParseStatus, done
<1> QED BY <1>1, <1>2

\* A qmail-queue never changes its envelope, and queues only a complete one.
LEMMA ProcessMoves ==
  ASSUME NEW q \in QmailQueue, NEW r \in Proceeds(q) \cup Fails(q)
  PROVE  /\ r \in QmailQueue
         /\ r.env = q.env
         /\ r.queued = q.queued \/ (r.queued /\ Complete(r.env))
<1>1. CASE r \in ReadsBlock(q) \/ r \in ReadsEntry(q)
  <2>1. q.got + 1 \in Nat /\ q.read + 1 \in Nat
    BY DEF QmailQueue
  <2>2. r \in {[q EXCEPT !.got = q.got + 1], [q EXCEPT !.read = q.read + 1]}
    BY <1>1 DEF ReadsBlock, ReadsEntry
  <2>3. r \in QmailQueue
    BY <2>1, <2>2, CountedKeeps
  <2>4. r.env = q.env /\ r.queued = q.queued
    BY <2>2 DEF QmailQueue
  <2> QED BY <2>3, <2>4
<1>2. CASE r \in Queues(q)
  BY <1>2 DEF Queues, Usable, QmailQueue
<1>3. CASE r \in Finishes(q)
  BY <1>3 DEF Finishes, QmailQueue, Statuses
<1>4. CASE r \in Fails(q)
  BY <1>4 DEF Fails, QmailQueue, Statuses
<1> QED BY <1>1, <1>2, <1>3, <1>4 DEF Proceeds

-----------------------------------------------------------------------------
(* What each hook does to the processes and the pipes, step by step        *)

\* A process as it was, but for the write ends of its pipes.
Spares(q, r) ==
  /\ r.st = q.st /\ r.msg = q.msg /\ r.got = q.got /\ r.env = q.env
  /\ r.sent = q.sent /\ r.read = q.read /\ r.queued = q.queued

SparesAll(qq, rr) == \A k \in Message : Spares(qq[k], rr[k])

\* Every process but that of message n.
SparesBut(qq, rr, n) == \A k \in Message : k # n => Spares(qq[k], rr[k])

LEMMA SparesNothing ==
  ASSUME NEW qq
  PROVE  SparesAll(qq, qq)
  BY DEF SparesAll, Spares

LEMMA SparesTransitive ==
  ASSUME NEW p, NEW q, NEW r, SparesAll(p, q)
  PROVE  /\ SparesAll(q, r) => SparesAll(p, r)
         /\ \A n : SparesBut(q, r, n) => SparesBut(p, r, n)
  BY DEF SparesAll, SparesBut, Spares

LEMMA SparesButTransitive ==
  ASSUME NEW p, NEW q, NEW r, NEW n, SparesBut(p, q, n), SparesBut(q, r, n)
  PROVE  SparesBut(p, r, n)
  BY DEF SparesBut, Spares

\* Closing write ends spares the processes.
LEMMA WithoutPipesSpares ==
  ASSUME NEW qq \in [Message -> QmailQueue], NEW e, NEW m
  PROVE  SparesAll(qq, WithoutPipes(qq, e, m))
<1> SUFFICES ASSUME NEW k \in Message
             PROVE  Spares(qq[k], WithoutPipes(qq, e, m)[k])
  BY DEF SparesAll
<1>1. WithoutPipes(qq, e, m)[k] = [qq[k] EXCEPT !.eopen = qq[k].eopen /\ k # e,
                                                 !.mopen = qq[k].mopen /\ k # m]
  BY DEF WithoutPipes
<1>2. qq[k] \in QmailQueue
  OBVIOUS
<1> QED BY <1>1, <1>2 DEF Spares, QmailQueue

\* After close_qqpipe and after a reset no pipe is open.
LEMMA PipesClosed ==
  ASSUME NEW b \in QmailState
  PROVE  /\ LET c == close_qqpipe(b)
            IN  /\ c \in QmailState /\ c.epipe = 0 /\ c.mpipe = 0 /\ c.pid = b.pid
                /\ SparesAll(b.qq, c.qq)
         /\ LET c == reset(b)
            IN  /\ c \in QmailState /\ c.epipe = 0 /\ c.mpipe = 0 /\ c.pid = b.pid
                /\ SparesAll(b.qq, c.qq)
<1> DEFINE c == close_qqpipe(b)
<1>1. b.qq \in [Message -> QmailQueue]
  BY DEF QmailState
<1>2. /\ c \in QmailState /\ c.epipe = 0 /\ c.mpipe = 0 /\ c.pid = b.pid
      /\ c.qq = WithoutPipes(b.qq, b.epipe, b.mpipe)
  BY CloseType DEF close_qqpipe, QmailState
<1>3. SparesAll(b.qq, c.qq)
  BY <1>1, <1>2, WithoutPipesSpares
<1>4. reset(b) = [c EXCEPT !.buf = <<>>, !.phase = "idle"] /\ reset(b) \in QmailState
  BY ResetType DEF reset
<1> HIDE DEF c
<1>5. LET d == [c EXCEPT !.buf = <<>>, !.phase = "idle"]
      IN  d.epipe = c.epipe /\ d.mpipe = c.mpipe /\ d.pid = c.pid /\ d.qq = c.qq
  BY <1>2 DEF QmailState
<1>6. /\ reset(b).epipe = 0 /\ reset(b).mpipe = 0 /\ reset(b).pid = b.pid
      /\ SparesAll(b.qq, reset(b).qq)
  BY <1>2, <1>3, <1>4, <1>5
<1> QED BY <1>2, <1>3, <1>4, <1>6 DEF c

\* A hook that is about the buffer only.
Aside(b, c) ==
  /\ c \in QmailState /\ c.qq = b.qq
  /\ c.epipe = b.epipe /\ c.mpipe = b.mpipe /\ c.pid = b.pid

LEMMA BufferAside ==
  ASSUME NEW b \in QmailState, NEW c \in Seq(Entry)
  PROVE  Aside(b, [b EXCEPT !.buf = c])
  BY DEF Aside, QmailState

LEMMA AddressesAside ==
  ASSUME NEW b \in QmailState, NEW a \in Address, NEW o \in do_sender(b, a) \cup do_recipient(b, a)
  PROVE  Aside(b, o.be)
<1>1. /\ Append(b.buf, From(a)) \in Seq(Entry) /\ Append(b.buf, To(a)) \in Seq(Entry)
      /\ Append(b.buf, Torn(a)) \in Seq(Entry)
  BY EntryTypes DEF QmailState
<1>2. CASE o = Returns([b EXCEPT !.buf = Append(b.buf, From(a))], "none")
  BY <1>1, <1>2, BufferAside DEF Returns
<1>3. CASE o = Returns([b EXCEPT !.buf = Append(b.buf, To(a))], "none")
  BY <1>1, <1>3, BufferAside DEF Returns
<1>4. CASE o = Returns([b EXCEPT !.buf = Append(b.buf, Torn(a))], "temp")
  BY <1>1, <1>4, BufferAside DEF Returns
<1> QED BY <1>2, <1>3, <1>4 DEF do_sender, do_recipient, MayFail

\* A process replaced, the rest of the backend as it was.
LEMMA ProcessReplaced ==
  ASSUME NEW b \in QmailState, NEW k \in Message, NEW q \in QmailQueue
  PROVE  LET d == [b EXCEPT !.qq = [b.qq EXCEPT ![k] = q]]
         IN  /\ d \in QmailState /\ d.epipe = b.epipe /\ d.mpipe = b.mpipe /\ d.pid = b.pid
             /\ d.phase = b.phase /\ d.buf = b.buf
             /\ d.qq[k] = q /\ SparesBut(b.qq, d.qq, k)
<1>1. b.qq \in [Message -> QmailQueue]
  BY DEF QmailState
<1>2. [b.qq EXCEPT ![k] = q] \in [Message -> QmailQueue]
  BY <1>1
<1>3. [b.qq EXCEPT ![k] = q][k] = q
  BY <1>1
<1>4. SparesBut(b.qq, [b.qq EXCEPT ![k] = q], k)
  BY <1>1 DEF SparesBut, Spares
<1> QED BY <1>2, <1>3, <1>4 DEF QmailState

\* start_qq starts the process of message k, its input holding msg blocks, or nothing.
LEMMA StartStarts ==
  ASSUME NEW b \in QmailState, NEW k \in Message, NEW msg \in Nat,
         NEW o \in start_qq(b, k, msg)
  PROVE  /\ o.be \in QmailState
         /\ \/ /\ o.resp = "none" /\ o.be.pid = k
               /\ o.be.epipe = b.epipe /\ o.be.mpipe = b.mpipe
               /\ SparesBut(b.qq, o.be.qq, k)
               /\ LET q == o.be.qq[k]
                  IN  /\ q.st = "run" /\ q.msg = msg /\ q.got = b.qq[k].got
                      /\ q.env = b.qq[k].env /\ q.sent = b.qq[k].sent
                      /\ q.read = b.qq[k].read /\ q.queued = b.qq[k].queued
            \/ o.resp = "temp" /\ SparesAll(b.qq, o.be.qq)
<1> DEFINE q == [b.qq[k] EXCEPT !.st = "run", !.msg = msg]
           c == [b EXCEPT !.qq = [b.qq EXCEPT ![k] = q]]
<1>0. b.qq \in [Message -> QmailQueue] /\ b.qq[k] \in QmailQueue
  BY DEF QmailState
<1>1. CASE o = Returns([b EXCEPT !.pid = k, !.qq[k].st = "run", !.qq[k].msg = msg], "none")
  <2>1. /\ q \in QmailQueue /\ q.st = "run" /\ q.msg = msg /\ q.got = b.qq[k].got
        /\ q.env = b.qq[k].env /\ q.sent = b.qq[k].sent
        /\ q.read = b.qq[k].read /\ q.queued = b.qq[k].queued
    BY <1>0 DEF QmailQueue
  <2>2. o.be = [c EXCEPT !.pid = k] /\ o.resp = "none"
    <3>1. [b EXCEPT !.pid = k, !.qq[k].st = "run", !.qq[k].msg = msg]
            = [b EXCEPT !.pid = k, !.qq = [b.qq EXCEPT ![k] = q]]
      BY DEF QmailState, QmailQueue
    <3>2. [b EXCEPT !.pid = k, !.qq = [b.qq EXCEPT ![k] = q]] = [c EXCEPT !.pid = k]
      BY DEF QmailState
    <3> QED BY <1>1, <3>1, <3>2 DEF Returns
  <2> HIDE DEF q
  <2>3. /\ c \in QmailState /\ c.epipe = b.epipe /\ c.mpipe = b.mpipe
        /\ c.qq[k] = q /\ SparesBut(b.qq, c.qq, k)
    BY <2>1, ProcessReplaced
  <2> HIDE DEF c
  <2>4. /\ o.be \in QmailState /\ o.be.pid = k /\ o.be.epipe = c.epipe /\ o.be.mpipe = c.mpipe
        /\ o.be.qq = c.qq
    <3>1. k \in 0 .. MaxMessages
      BY DEF Message
    <3> QED BY <2>2, <2>3, <3>1 DEF QmailState
  <2> QED BY <2>1, <2>2, <2>3, <2>4
<1>2. CASE o = Returns(b, "temp")
  BY <1>2, SparesNothing DEF Returns
<1>3. CASE o = Returns([close_qqpipe(b) EXCEPT !.pid = 0], "temp")
  <2> DEFINE d == close_qqpipe(b)
  <2>1. d \in QmailState /\ SparesAll(b.qq, d.qq)
    BY PipesClosed
  <2> HIDE DEF d
  <2>2. 0 \in 0 .. MaxMessages
    OBVIOUS
  <2>3. [d EXCEPT !.pid = 0] \in QmailState /\ [d EXCEPT !.pid = 0].qq = d.qq
    BY <2>1, <2>2 DEF QmailState
  <2> QED BY <1>3, <2>1, <2>3 DEF Returns, d
<1> QED BY <1>1, <1>2, <1>3 DEF start_qq, MayFail


\* data_start leaves the message to a scratch file, or starts its process, its
\* pipes being the ones that are open, or fails.
LEMMA DataStartStarts ==
  ASSUME NEW b \in QmailState, NEW fd \in BOOLEAN, NEW k \in Message,
         NEW o \in data_start(b, fd, k)
  PROVE  /\ o.be \in QmailState
         /\ \/ /\ o.resp = "none" /\ o.be.epipe = k
               /\ SparesBut(b.qq, o.be.qq, k)
               /\ LET q == o.be.qq[k]
                  IN  /\ q.env = b.qq[k].env /\ q.sent = b.qq[k].sent /\ q.got = b.qq[k].got
                      /\ q.read = b.qq[k].read /\ q.queued = b.qq[k].queued
                      /\ IF fd THEN q.st = b.qq[k].st /\ o.be.mpipe = b.mpipe
                         ELSE q.st = "run" /\ q.msg = 0 /\ o.be.mpipe = k /\ o.be.pid = k
            \/ o.resp = "temp" /\ SparesAll(b.qq, o.be.qq)
<1> DEFINE oneOpen  == [b EXCEPT !.epipe = k, !.qq[k].eopen = TRUE]
           bothOpen == [oneOpen EXCEPT !.mpipe = k, !.qq[k].mopen = TRUE]
<1>1. k \in 0 .. MaxMessages
  BY DEF Message
<1>2. /\ oneOpen \in QmailState /\ oneOpen.epipe = k /\ oneOpen.mpipe = b.mpipe
      /\ SparesAll(b.qq, oneOpen.qq)
  <2> DEFINE q == [b.qq[k] EXCEPT !.eopen = TRUE]
             c == [b EXCEPT !.qq = [b.qq EXCEPT ![k] = q]]
  <2>1. q \in QmailQueue /\ Spares(b.qq[k], q)
    BY ZenonT(60) DEF QmailState, QmailQueue, Spares
  <2>2. oneOpen = [b EXCEPT !.epipe = k, !.qq = [b.qq EXCEPT ![k] = q]]
    BY DEF QmailState, QmailQueue
  <2>3. [b EXCEPT !.epipe = k, !.qq = [b.qq EXCEPT ![k] = q]] = [c EXCEPT !.epipe = k]
    BY DEF QmailState
  <2> HIDE DEF q, oneOpen
  <2>4. /\ c \in QmailState /\ c.mpipe = b.mpipe /\ c.qq[k] = q /\ SparesBut(b.qq, c.qq, k)
    BY <2>1, ProcessReplaced
  <2> HIDE DEF c
  <2>5. SparesAll(b.qq, c.qq)
    BY <2>1, <2>4 DEF SparesAll, SparesBut
  <2> QED BY <1>1, <2>2, <2>3, <2>4, <2>5 DEF QmailState
<1>3. /\ bothOpen \in QmailState /\ bothOpen.epipe = k /\ bothOpen.mpipe = k
      /\ SparesAll(b.qq, bothOpen.qq)
  <2> HIDE DEF oneOpen
  <2> DEFINE q == [oneOpen.qq[k] EXCEPT !.mopen = TRUE]
             c == [oneOpen EXCEPT !.qq = [oneOpen.qq EXCEPT ![k] = q]]
  <2>0. oneOpen.qq[k] \in QmailQueue
    BY <1>2 DEF QmailState
  <2>1. q \in QmailQueue /\ Spares(oneOpen.qq[k], q)
    BY <2>0 DEF QmailQueue, Spares
  <2>2. bothOpen = [oneOpen EXCEPT !.mpipe = k, !.qq = [oneOpen.qq EXCEPT ![k] = q]]
    BY <1>2 DEF QmailState, QmailQueue
  <2>3. [oneOpen EXCEPT !.mpipe = k, !.qq = [oneOpen.qq EXCEPT ![k] = q]] = [c EXCEPT !.mpipe = k]
    BY <1>2 DEF QmailState
  <2> HIDE DEF q, bothOpen
  <2>4. /\ c \in QmailState /\ c.epipe = k /\ c.qq[k] = q /\ SparesBut(oneOpen.qq, c.qq, k)
    BY <1>2, <2>1, ProcessReplaced
  <2> HIDE DEF c
  <2>5. SparesAll(oneOpen.qq, c.qq)
    BY <2>1, <2>4 DEF SparesAll, SparesBut
  <2>6. SparesAll(b.qq, c.qq)
    BY <1>2, <2>5, SparesTransitive
  <2> QED BY <1>1, <2>2, <2>3, <2>4, <2>6 DEF QmailState
<1> HIDE DEF oneOpen, bothOpen
<1>4. CASE o = Returns(b, "temp")
  BY <1>4, SparesNothing DEF Returns
<1>5. CASE o = Returns(oneOpen, "none") /\ fd
  BY <1>2, <1>5 DEF Returns, SparesAll, SparesBut, Spares
<1>6. CASE o = Returns(close_qqpipe(oneOpen), "temp")
  BY <1>2, <1>6, PipesClosed, SparesTransitive DEF Returns
<1>7. CASE o \in start_qq(bothOpen, k, 0) /\ ~ fd
  <2>1. /\ o.be \in QmailState
        /\ \/ /\ o.resp = "none" /\ o.be.pid = k
              /\ o.be.epipe = bothOpen.epipe /\ o.be.mpipe = bothOpen.mpipe
              /\ SparesBut(bothOpen.qq, o.be.qq, k)
              /\ LET q == o.be.qq[k]
                 IN  /\ q.st = "run" /\ q.msg = 0 /\ q.got = bothOpen.qq[k].got
                     /\ q.env = bothOpen.qq[k].env /\ q.sent = bothOpen.qq[k].sent
                     /\ q.read = bothOpen.qq[k].read /\ q.queued = bothOpen.qq[k].queued
           \/ o.resp = "temp" /\ SparesAll(bothOpen.qq, o.be.qq)
    BY <1>3, <1>7, StartStarts
  <2>2. CASE o.resp = "temp" /\ SparesAll(bothOpen.qq, o.be.qq)
    BY <1>3, <2>1, <2>2, SparesTransitive
  <2>3. CASE o.resp # "temp"
    <3>1. SparesBut(b.qq, o.be.qq, k)
      BY <1>3, <2>1, <2>3, SparesTransitive
    <3>2. Spares(b.qq[k], bothOpen.qq[k])
      BY <1>3 DEF SparesAll
    <3> QED BY <1>3, <1>7, <2>1, <2>3, <3>1, <3>2 DEF Spares
  <2> QED BY <2>1, <2>2, <2>3
<1> QED BY <1>4, <1>5, <1>6, <1>7 DEF data_start, MayFail, oneOpen, bothOpen

\* data_block puts the block in the pipe of the process that reads the message, or
\* fails, and leaves it to no process when the message goes to a scratch file.
LEMMA DataBlockCounts ==
  ASSUME NEW b \in QmailState, NEW o \in data_block(b)
  PROVE  /\ o.be \in QmailState /\ o.be.epipe = b.epipe /\ o.be.mpipe = b.mpipe
         /\ o.be.pid = b.pid
         /\ \/ SparesAll(b.qq, o.be.qq) /\ (b.mpipe = 0 \/ "block" \in QmailFaults)
            \/ /\ b.mpipe \in Message /\ SparesBut(b.qq, o.be.qq, b.mpipe)
               /\ LET q == o.be.qq[b.mpipe]
                  IN  /\ q.msg = b.qq[b.mpipe].msg + 1
                      /\ q.st = b.qq[b.mpipe].st /\ q.got = b.qq[b.mpipe].got
                      /\ q.env = b.qq[b.mpipe].env /\ q.sent = b.qq[b.mpipe].sent
                      /\ q.read = b.qq[b.mpipe].read /\ q.queued = b.qq[b.mpipe].queued
<1> DEFINE q == [b.qq[b.mpipe] EXCEPT !.msg = @ + 1]
<1>1. CASE o.be = b /\ (b.mpipe = 0 \/ "block" \in QmailFaults)
  BY <1>1, SparesNothing
<1>2. CASE /\ b.mpipe # 0
           /\ o = Returns([b EXCEPT !.qq[b.mpipe].msg = @ + 1], "none")
  <2>1. b.mpipe \in Message
    BY <1>2 DEF QmailState, Message
  <2>2. b.qq[b.mpipe] \in QmailQueue /\ b.qq[b.mpipe].msg + 1 \in Nat
    BY <2>1 DEF QmailState, QmailQueue
  <2>3. /\ q \in QmailQueue
        /\ q.msg = b.qq[b.mpipe].msg + 1
        /\ q.st = b.qq[b.mpipe].st /\ q.got = b.qq[b.mpipe].got
        /\ q.env = b.qq[b.mpipe].env /\ q.sent = b.qq[b.mpipe].sent
        /\ q.read = b.qq[b.mpipe].read /\ q.queued = b.qq[b.mpipe].queued
    BY <2>2 DEF QmailQueue
  <2>4. o.be = [b EXCEPT !.qq = [b.qq EXCEPT ![b.mpipe] = q]]
    BY <1>2 DEF QmailState, QmailQueue, Returns
  <2> HIDE DEF q
  <2> QED BY <2>1, <2>3, <2>4, ProcessReplaced
<1> QED BY <1>1, <1>2 DEF data_block, MayFail, Returns

\* In state c of the backend process e has its envelope still to read, and from
\* state b of the backend either its body or the scratch file it was started on.
EnvelopeReady(b, c, e, fd, file) ==
  LET p == b.qq[e]
      q == c.qq[e]
  IN  /\ c.phase = "envelope" /\ c.epipe = e
      /\ SparesBut(b.qq, c.qq, e)
      /\ q.env = Append(b.buf, EndMark)
      /\ q.sent = p.sent /\ q.read = p.read /\ q.got = p.got
      /\ q.queued = p.queued
      /\ fd => q.st = "run" /\ q.msg = file /\ c.pid = e /\ c.mpipe = b.mpipe
      /\ ~ fd => q.st = p.st /\ q.msg = p.msg /\ c.pid = b.pid /\ c.mpipe = 0

\* message_end closes the message's pipe, or starts the process on the scratch
\* file, and then has the envelope to write; or it fails, and has written nothing.
LEMMA MessageEndWrites ==
  ASSUME NEW b \in QmailState, b.epipe \in Message,
         NEW fd \in BOOLEAN, NEW file \in Nat,
         NEW o \in message_end(b, fd, file)
  PROVE  /\ o.be \in QmailState
         /\ \/ o.resp = "temp" /\ SparesAll(b.qq, o.be.qq)
            \/ o.resp = "busy" /\ EnvelopeReady(b, o.be, b.epipe, fd, file)
<1> DEFINE closed == [b EXCEPT !.mpipe = 0, !.qq = WithoutPipes(b.qq, 0, b.mpipe)]
           write(c) == [c EXCEPT !.phase = "envelope",
                                 !.qq[c.epipe].env = Append(c.buf, EndMark)]
           started == IF fd THEN start_qq(b, b.epipe, file) ELSE {Returns(closed, "none")}
           e == b.epipe
<1>1. CASE o = Returns(b, "temp")
  BY <1>1, SparesNothing DEF Returns
<1>2. ASSUME NEW c \in started
      PROVE  /\ c.be \in QmailState /\ c.be.buf = b.buf
             /\ \/ c.resp = "temp" /\ SparesAll(b.qq, c.be.qq)
                \/ /\ c.resp = "none" /\ c.be.epipe = e
                   /\ SparesBut(b.qq, c.be.qq, e)
                   /\ LET p == b.qq[e]
                          q == c.be.qq[e]
                      IN  /\ q.env = p.env
                          /\ q.sent = p.sent /\ q.read = p.read /\ q.got = p.got
                          /\ q.queued = p.queued
                          /\ IF fd THEN /\ q.st = "run" /\ q.msg = file
                                        /\ c.be.pid = e /\ c.be.mpipe = b.mpipe
                             ELSE /\ q.st = p.st /\ q.msg = p.msg
                                  /\ c.be.pid = b.pid /\ c.be.mpipe = 0
  <2>1. CASE fd
    <3>1. c \in start_qq(b, e, file)
      BY <1>2, <2>1
    <3>2. c.be.buf = b.buf
      BY <3>1, StartOutcome
    <3> QED BY <2>1, <3>1, <3>2, StartStarts
  <2>2. CASE ~ fd
    <3>1. b.qq \in [Message -> QmailQueue] /\ 0 \in 0 .. MaxMessages
      BY DEF QmailState
    <3>2. /\ WithoutPipes(b.qq, 0, b.mpipe) \in [Message -> QmailQueue]
          /\ SparesAll(b.qq, WithoutPipes(b.qq, 0, b.mpipe))
      BY <3>1, WithoutPipesType, WithoutPipesSpares
    <3>3. c = Returns(closed, "none")
      BY <1>2, <2>2
    <3>4. /\ closed \in QmailState /\ closed.buf = b.buf /\ closed.epipe = e /\ closed.pid = b.pid
          /\ closed.mpipe = 0 /\ closed.qq = WithoutPipes(b.qq, 0, b.mpipe)
      BY <3>1, <3>2 DEF QmailState
    <3> HIDE DEF closed
    <3>5. Spares(b.qq[e], closed.qq[e]) /\ SparesBut(b.qq, closed.qq, e)
      BY <3>2, <3>4 DEF SparesAll, SparesBut
    <3> QED BY <2>2, <3>3, <3>4, <3>5 DEF Returns, Spares
  <2> QED BY <2>1, <2>2
<1>3. ASSUME NEW c, c \in QmailState, c.epipe = e
      PROVE  LET d == write(c)
             IN  /\ d \in QmailState /\ d.phase = "envelope" /\ d.epipe = e
                 /\ d.pid = c.pid /\ d.mpipe = c.mpipe
                 /\ SparesBut(c.qq, d.qq, e)
                 /\ LET p == c.qq[e]
                        q == d.qq[e]
                    IN  /\ q.env = Append(c.buf, EndMark)
                        /\ q.sent = p.sent /\ q.read = p.read /\ q.got = p.got
                        /\ q.queued = p.queued /\ q.st = p.st /\ q.msg = p.msg
  <2> DEFINE env == Append(c.buf, EndMark)
             q == [c.qq[e] EXCEPT !.env = env]
             d == [c EXCEPT !.qq = [c.qq EXCEPT ![e] = q]]
  <2>1. env \in Seq(Entry)
    BY <1>3, MarkTypes DEF QmailState
  <2>2. c.qq \in [Message -> QmailQueue] /\ c.qq[e] \in QmailQueue
    BY <1>3 DEF QmailState
  <2>3. write(c) = [c EXCEPT !.phase = "envelope", !.qq = [c.qq EXCEPT ![e] = q]]
    BY <1>3, <2>2 DEF QmailState
  <2>4. [c EXCEPT !.phase = "envelope", !.qq = [c.qq EXCEPT ![e] = q]] = [d EXCEPT !.phase = "envelope"]
    BY <1>3 DEF QmailState
  <2> HIDE DEF env
  <2>5. /\ q \in QmailQueue /\ q.env = env /\ q.sent = c.qq[e].sent /\ q.read = c.qq[e].read
        /\ q.got = c.qq[e].got /\ q.queued = c.qq[e].queued /\ q.st = c.qq[e].st
        /\ q.msg = c.qq[e].msg
    BY <2>1, <2>2 DEF QmailQueue
  <2> HIDE DEF q
  <2>6. /\ d \in QmailState /\ d.epipe = e /\ d.mpipe = c.mpipe /\ d.pid = c.pid
        /\ d.qq[e] = q /\ SparesBut(c.qq, d.qq, e)
    BY <1>3, <2>5, ProcessReplaced
  <2> HIDE DEF d, write
  <2>7. /\ write(c) \in QmailState /\ write(c).phase = "envelope" /\ write(c).epipe = d.epipe
        /\ write(c).pid = d.pid /\ write(c).mpipe = d.mpipe /\ write(c).qq = d.qq
    <3>1. write(c) = [d EXCEPT !.phase = "envelope"]
      BY <2>3, <2>4
    <3>2. ASSUME NEW x \in QmailState
          PROVE  LET y == [x EXCEPT !.phase = "envelope"]
                 IN  /\ y \in QmailState /\ y.phase = "envelope" /\ y.epipe = x.epipe
                     /\ y.pid = x.pid /\ y.mpipe = x.mpipe /\ y.qq = x.qq
      BY <3>2 DEF QmailState
    <3> QED BY <2>6, <3>1, <3>2
  <2> QED BY <2>5, <2>6, <2>7 DEF env
<1> HIDE DEF started, write
<1>4. ASSUME NEW c \in started, response_ok(c.resp), o = Returns(write(c.be), "busy")
      PROVE  /\ o.be \in QmailState /\ o.resp = "busy"
             /\ EnvelopeReady(b, o.be, e, fd, file)
  <2>1. c.resp # "temp" /\ c.be \in QmailState /\ c.be.buf = b.buf
    BY <1>2, <1>4 DEF response_ok
  <2>2. /\ c.be.epipe = e
        /\ SparesBut(b.qq, c.be.qq, e)
        /\ LET p == b.qq[e]
               q == c.be.qq[e]
           IN  /\ q.env = p.env
               /\ q.sent = p.sent /\ q.read = p.read /\ q.got = p.got
               /\ q.queued = p.queued
               /\ IF fd THEN /\ q.st = "run" /\ q.msg = file
                             /\ c.be.pid = e /\ c.be.mpipe = b.mpipe
                  ELSE /\ q.st = p.st /\ q.msg = p.msg
                       /\ c.be.pid = b.pid /\ c.be.mpipe = 0
    BY <1>2, <1>4, <2>1
  <2>3. o.be = write(c.be) /\ o.resp = "busy"
    BY <1>4 DEF Returns
  <2>4. LET d == write(c.be)
        IN  /\ d \in QmailState /\ d.phase = "envelope" /\ d.epipe = e
            /\ d.pid = c.be.pid /\ d.mpipe = c.be.mpipe
            /\ SparesBut(c.be.qq, d.qq, e)
            /\ LET p == c.be.qq[e]
                   q == d.qq[e]
               IN  /\ q.env = Append(c.be.buf, EndMark)
                   /\ q.sent = p.sent /\ q.read = p.read /\ q.got = p.got
                   /\ q.queued = p.queued /\ q.st = p.st /\ q.msg = p.msg
    BY <1>3, <2>1, <2>2
  <2>5. SparesBut(b.qq, o.be.qq, e)
    BY <2>2, <2>3, <2>4, SparesButTransitive
  <2> HIDE DEF e
  <2> QED BY <2>1, <2>2, <2>3, <2>4, <2>5 DEF EnvelopeReady
<1>5. ASSUME NEW c \in started, ~ response_ok(c.resp), o = c
      PROVE  o.be \in QmailState /\ o.resp = "temp" /\ SparesAll(b.qq, o.be.qq)
  BY <1>2, <1>5 DEF response_ok
<1>6. \/ o = Returns(b, "temp")
      \/ \E c \in started : response_ok(c.resp) /\ o = Returns(write(c.be), "busy")
      \/ \E c \in started : ~ response_ok(c.resp) /\ o = c
  BY DEF message_end, MayFail, started, write
<1> QED BY <1>1, <1>4, <1>5, <1>6


(***************************************************************************)
(* A step of message_end writes an entry of the envelope, fails before its *)
(* last, closes the pipes behind its last, or reaps the process, whose     *)
(* success alone is a success.                                             *)
(***************************************************************************)
LEMMA GoesOnSteps ==
  ASSUME NEW b \in QmailState, b.pid \in Message, b.phase = "envelope" => b.epipe \in Message,
         NEW o \in message_end_goes_on(b)
  PROVE  /\ o.be \in QmailState
         /\ \/ /\ b.phase = "envelope" /\ o.resp = "busy" /\ o.be.phase = "waitpid"
               /\ o.be.pid = b.pid /\ o.be.epipe = 0 /\ o.be.mpipe = 0
               /\ SparesAll(b.qq, o.be.qq)
            \/ /\ b.phase = "envelope" /\ o.resp = "temp" /\ SparesAll(b.qq, o.be.qq)
               /\ b.qq[b.epipe].sent # Len(b.qq[b.epipe].env)
            \/ /\ b.phase = "envelope" /\ o.resp = "busy" /\ o.be.phase = "envelope"
               /\ o.be.pid = b.pid /\ o.be.epipe = b.epipe /\ o.be.mpipe = b.mpipe
               /\ SparesBut(b.qq, o.be.qq, b.epipe)
               /\ LET p == b.qq[b.epipe]
                      q == o.be.qq[b.epipe]
                  IN  /\ p.sent # Len(p.env) /\ q.sent = p.sent + 1
                      /\ q.st = p.st /\ q.msg = p.msg /\ q.got = p.got /\ q.env = p.env
                      /\ q.read = p.read /\ q.queued = p.queued
            \/ /\ b.phase # "envelope" /\ o.resp \in {"ok", "perm", "temp"}
               /\ o.be.epipe = b.epipe /\ o.be.mpipe = b.mpipe
               /\ SparesBut(b.qq, o.be.qq, b.pid)
               /\ o.be.qq[b.pid] = Reaped(b.qq[b.pid])
               /\ o.resp = "ok" => b.qq[b.pid].st = "ok"
<1>1. CASE b.phase = "envelope"
  <2> DEFINE e == b.epipe
             p == b.qq[e]
             q == [p EXCEPT !.sent = @ + 1]
             c == close_qqpipe(b)
  <2>0. p \in QmailQueue /\ p.sent + 1 \in Nat
    BY <1>1 DEF QmailState, QmailQueue
  <2>1. CASE o = Returns([c EXCEPT !.phase = "waitpid"], "busy")
    <3>1. /\ c \in QmailState /\ c.epipe = 0 /\ c.mpipe = 0 /\ c.pid = b.pid
          /\ SparesAll(b.qq, c.qq)
      BY PipesClosed
    <3> HIDE DEF c
    <3> QED BY <1>1, <2>1, <3>1 DEF Returns, QmailState
  <2>2. CASE o = Returns([b EXCEPT !.phase = "idle"], "temp") /\ p.sent # Len(p.env)
    <3>1. o.be \in QmailState /\ o.be.qq = b.qq /\ o.resp = "temp"
      BY <2>2 DEF Returns, QmailState
    <3> QED BY <1>1, <2>2, <3>1, SparesNothing
  <2>3. CASE o = Returns([b EXCEPT !.qq[e].sent = @ + 1], "busy") /\ p.sent # Len(p.env)
    <3>1. /\ q \in QmailQueue /\ q.sent = p.sent + 1
          /\ q.st = p.st /\ q.msg = p.msg /\ q.got = p.got /\ q.env = p.env
          /\ q.read = p.read /\ q.queued = p.queued
      BY <2>0 DEF QmailQueue
    <3>2. o.be = [b EXCEPT !.qq = [b.qq EXCEPT ![e] = q]] /\ o.resp = "busy"
      BY <2>3 DEF Returns, QmailState, QmailQueue
    <3> HIDE DEF q
    <3>3. /\ o.be \in QmailState /\ o.be.epipe = e /\ o.be.mpipe = b.mpipe /\ o.be.pid = b.pid
          /\ o.be.phase = "envelope" /\ o.be.qq[e] = q /\ SparesBut(b.qq, o.be.qq, e)
      BY <1>1, <3>1, <3>2, ProcessReplaced
    <3> QED BY <1>1, <2>3, <3>1, <3>2, <3>3
  <2> HIDE DEF c
  <2>4. message_end_goes_on(b) = WriteEnvelope(b)
    BY <1>1 DEF message_end_goes_on
  <2> QED BY <2>1, <2>2, <2>3, <2>4 DEF WriteEnvelope, MayFail, c
<1>2. CASE b.phase # "envelope"
  <2> DEFINE k == b.pid
             q == Reaped(b.qq[k])
             c == [b EXCEPT !.qq = [b.qq EXCEPT ![k] = q]]
             done == [b EXCEPT !.phase = "idle", !.qq[b.pid] = Reaped(@)]
  <2>1. q \in QmailQueue
    BY ReapedKeeps DEF QmailState
  <2>2. done = [b EXCEPT !.phase = "idle", !.qq = [b.qq EXCEPT ![k] = q]]
    BY DEF QmailState
  <2>3. [b EXCEPT !.phase = "idle", !.qq = [b.qq EXCEPT ![k] = q]] = [c EXCEPT !.phase = "idle"]
    BY DEF QmailState
  <2> HIDE DEF q
  <2>4. /\ c \in QmailState /\ c.epipe = b.epipe /\ c.mpipe = b.mpipe
        /\ c.qq[k] = q /\ SparesBut(b.qq, c.qq, k)
    BY <2>1, ProcessReplaced
  <2> HIDE DEF c, done
  <2>5. /\ done \in QmailState /\ done.epipe = b.epipe /\ done.mpipe = b.mpipe
        /\ done.qq[k] = q /\ SparesBut(b.qq, done.qq, k)
    BY <2>2, <2>3, <2>4 DEF QmailState
  <2>6. <<Text>> \in Seq(Entry)
    BY MarkTypes
  <2>7. Aside(done, [done EXCEPT !.buf = <<Text>>])
    BY <2>5, <2>6, BufferAside
  <2>8. \/ o = Returns([done EXCEPT !.buf = <<Text>>], "ok") /\ b.qq[k].st = "ok"
        \/ o = Returns(done, "perm")
        \/ o = Returns(done, "temp")
    BY <1>2 DEF message_end_goes_on, ParseStatus, done
  <2>9. CASE o = Returns([done EXCEPT !.buf = <<Text>>], "ok") /\ b.qq[k].st = "ok"
    BY <1>2, <2>5, <2>7, <2>9 DEF Returns, Aside, q
  <2>10. CASE o = Returns(done, "perm") \/ o = Returns(done, "temp")
    BY <1>2, <2>5, <2>10 DEF Returns, q
  <2> QED BY <2>8, <2>9, <2>10
<1> QED BY <1>1, <1>2

-----------------------------------------------------------------------------
(* What a process may still do                                             *)

\* What is read was sent, what is sent is of the envelope, success is of the queue.
Sound(q) ==
  /\ q.read <= q.sent /\ q.sent <= Len(q.env)
  /\ q.st = "ok" => q.queued
  /\ q.queued => q.env # <<>>

\* Whatever becomes of its pipes, it never queues its message.
Barred(q) == q.st # "run" \/ ~ Complete(q.env) \/ q.sent < Len(q.env)

\* Its message, n blocks long, is what it was or will be given, and all it queues.
Whole(q, n) ==
  /\ q.st = "run" /\ q.env # <<>> => q.msg = n
  /\ q.queued => q.got = n

\* All this is told by what closing its pipes spares.
LEMMA SparesProcess ==
  ASSUME NEW q, NEW r, Spares(q, r)
  PROVE  /\ Sound(q) => Sound(r)
         /\ Barred(q) => Barred(r)
         /\ \A n : Whole(q, n) => Whole(r, n)
  BY DEF Spares, Sound, Barred, Whole, Complete

\* Reaped, a process moves no more, and has queued what it has.
LEMMA ReapedProcess ==
  ASSUME NEW q \in QmailQueue, Sound(q)
  PROVE  LET r == Reaped(q)
         IN  /\ Sound(r) /\ Barred(r) /\ r.queued = q.queued
             /\ \A n : Whole(q, n) => Whole(r, n)
<1>1. CASE q.queued
  <2>1. q.env \in Seq(Entry) /\ Len(q.env) \in Nat
    BY DEF QmailQueue
  <2> QED BY <1>1, <2>1 DEF Reaped, NoProcess, Sound, Barred, Whole
<1>2. CASE ~ q.queued
  <2>1. q.queued = FALSE
    BY <1>2 DEF QmailQueue
  <2> DEFINE r == Reaped(q)
  <2>2. r.st = "reaped" /\ r.queued = FALSE /\ r.sent = 0 /\ r.read = 0 /\ r.env = <<>>
    BY <1>2 DEF Reaped, NoProcess
  <2> HIDE DEF r
  <2>3. Len(r.env) = 0
    BY <2>2
  <2>4. Sound(r)
    BY <2>2, <2>3 DEF Sound
  <2>5. Barred(r) /\ \A n : Whole(r, n)
    BY <2>2 DEF Barred, Whole
  <2> QED BY <2>1, <2>2, <2>4, <2>5 DEF r
<1> QED BY <1>1, <1>2

\* A running process that moves or fails stays sound and barred, and whole; it
\* queues only what is not barred.
LEMMA ProcessGoesOn ==
  ASSUME NEW q \in QmailQueue, q.st = "run", Sound(q), NEW r \in Proceeds(q) \cup Fails(q)
  PROVE  /\ r \in QmailQueue /\ Sound(r) /\ r.env = q.env /\ r.msg = q.msg
         /\ q.queued => r.queued
         /\ r.queued /\ ~ q.queued => ~ Barred(q)
         /\ Barred(q) => Barred(r)
         /\ \A n : Whole(q, n) => Whole(r, n)
<1>0. r \in QmailQueue /\ r.env = q.env /\ (q.queued => r.queued)
  BY ProcessMoves
<1>1. CASE r \in ReadsBlock(q)
  <2>1. r = [q EXCEPT !.got = @ + 1] /\ q.got < q.msg
    BY <1>1 DEF ReadsBlock
  <2> QED BY <1>0, <2>1 DEF Sound, Barred, Whole, QmailQueue
<1>2. CASE r \in ReadsEntry(q)
  <2>1. r = [q EXCEPT !.read = @ + 1] /\ q.read < q.sent
    BY <1>2 DEF ReadsEntry
  <2>2. r.read = q.read + 1 /\ r.sent = q.sent /\ r.st = q.st /\ r.queued = q.queued
        /\ r.got = q.got /\ r.msg = q.msg
    BY <2>1 DEF QmailQueue
  <2>3. r.read <= r.sent
    BY <2>1, <2>2 DEF QmailQueue
  <2> QED BY <1>0, <2>2, <2>3 DEF Sound, Barred, Whole
<1>3. CASE r \in Queues(q)
  <2>1. r = [q EXCEPT !.queued = TRUE] /\ AtEnd(q) /\ Usable(q)
    BY <1>3 DEF Queues
  <2>2. q.env # <<>> /\ q.got = q.msg /\ q.read = Len(q.env) /\ Complete(q.env)
    BY <2>1 DEF AtEnd, Usable, Complete
  <2>3. ~ Barred(q)
    BY <2>2 DEF Barred, Sound, QmailQueue
  <2> QED BY <1>0, <2>1, <2>2, <2>3 DEF Sound, Whole, QmailQueue
<1>4. CASE r \in Finishes(q)
  BY <1>0, <1>4 DEF Finishes, Sound, Barred, Whole, QmailQueue
<1>5. CASE r \in Fails(q)
  BY <1>0, <1>5 DEF Fails, Sound, Barred, Whole, QmailQueue
<1> QED BY <1>1, <1>2, <1>3, <1>4, <1>5 DEF Proceeds

=============================================================================
