----------------------------- MODULE QmailBackend -----------------------------
(***************************************************************************)
(* backend-qmail.c, and the qmail-queue processes it starts.               *)
(*                                                                         *)
(* The backend collects the envelope in a static buffer as the sender and  *)
(* the recipients are accepted, feeds the message through one pipe and the *)
(* envelope through another to a qmail-queue process of its own, and asks  *)
(* that process's exit status what became of the message.                  *)
(*                                                                         *)
(* qmail-queue is another program: its part (the last section) is what     *)
(* this code relies on, its exit codes read by parse_status.               *)
(***************************************************************************)
EXTENDS Responses

CONSTANTS
  Address,      \* the mail addresses
  MaxMessages,  \* messages of one session (a bound; the code has none)
  PipeSize,     \* what a pipe holds unread, in blocks or envelope entries
  QmailFaults   \* the calls that may fail here, of FaultNames

FaultNames == {"oom", "pipe", "chdir", "fork", "block", "lseek", "envelope"}

ASSUME QmailAssumption ==
  /\ MaxMessages \in Nat
  /\ PipeSize \in Nat \ {0}
  /\ QmailFaults \subseteq FaultNames

Message == 1 .. MaxMessages

(***************************************************************************)
(* The envelope buffer, entry by entry: 'F' sender NUL, 'T' recipient NUL, *)
(* the NUL that str keeps after its last byte and that buffer.len+1 sends, *)
(* the text of the last success, and an entry cut short for want of memory.*)
(***************************************************************************)
From(a) == <<"F", a>>
To(a)   == <<"T", a>>
EndMark == <<"end">>
Text    == <<"text">>
Torn(a) == <<"torn", a>>

Entry == {From(a) : a \in Address} \cup {To(a) : a \in Address}
         \cup {Torn(a) : a \in Address} \cup {EndMark, Text}

(***************************************************************************)
(* Backend state:                                                          *)
(*   buf     buffer                                                        *)
(*   epipe   the message whose envelope pipe qqepipe is, 0 for -1          *)
(*   mpipe   the message whose message pipe qqmpipe[1] is, 0 for -1        *)
(*   pid     the message whose qmail-queue qqpid is, 0 for -1              *)
(*   phase   where message_end is: "idle", "envelope" or "waitpid"         *)
(*   qq      for each message its pipes and its qmail-queue process        *)
(***************************************************************************)
Statuses == {"ok", "perm", "temp", "signal"}

QmailQueue == [
  st     : {"none", "run", "reaped"} \cup Statuses, \* or how it ended
  msg    : Nat,          \* blocks of the message written to it
  got    : Nat,          \* ... and read by it
  mopen  : BOOLEAN,      \* the message's write end is open
  env    : Seq(Entry),   \* the envelope being written
  sent   : Nat,          \* its entries in the pipe or read
  read   : Nat,          \* ... and read
  eopen  : BOOLEAN,      \* the envelope's write end is open
  queued : BOOLEAN]      \* it has put the message in the queue

NoProcess == [st |-> "none", msg |-> 0, got |-> 0, mopen |-> FALSE, env |-> <<>>,
              sent |-> 0, read |-> 0, eopen |-> FALSE, queued |-> FALSE]

QmailInit == [buf |-> <<>>, epipe |-> 0, mpipe |-> 0, pid |-> 0, phase |-> "idle",
              qq |-> [k \in Message |-> NoProcess]]

QmailState == [buf : Seq(Entry), epipe : 0 .. MaxMessages, mpipe : 0 .. MaxMessages,
               pid : 0 .. MaxMessages, phase : {"idle", "envelope", "waitpid"},
               qq : [Message -> QmailQueue]]

Returns(b, r) == [be |-> b, resp |-> r]

\* The outcome r after b, if the system call `fault' may fail.
MayFail(fault, b, r) == IF fault \in QmailFaults THEN {Returns(b, r)} ELSE {}

-----------------------------------------------------------------------------
(* The hooks                                                               *)

\* The processes once the write ends of envelope pipe e and message pipe m close.
WithoutPipes(qq, e, m) ==
  [k \in Message |-> [qq[k] EXCEPT !.eopen = qq[k].eopen /\ k # e,
                                   !.mopen = qq[k].mopen /\ k # m]]

close_qqpipe(b) ==
  [b EXCEPT !.epipe = 0, !.mpipe = 0, !.qq = WithoutPipes(b.qq, b.epipe, b.mpipe)]

\* Mutant of reset: it forgets the pipes.
reset_keeping_pipes(b) == [b EXCEPT !.buf = <<>>, !.phase = "idle"]

reset(b) == [close_qqpipe(b) EXCEPT !.buf = <<>>, !.phase = "idle"]

do_sender(b, a) ==
  {Returns([b EXCEPT !.buf = Append(@, From(a))], "none")}
  \cup MayFail("oom", [b EXCEPT !.buf = Append(@, Torn(a))], "temp")

do_recipient(b, a) ==
  {Returns([b EXCEPT !.buf = Append(@, To(a))], "none")}
  \cup MayFail("oom", [b EXCEPT !.buf = Append(@, Torn(a))], "temp")

\* The child for message k, its standard input already holding msg blocks.
start_qq(b, k, msg) ==
  {Returns([b EXCEPT !.pid = k, !.qq[k].st = "run", !.qq[k].msg = msg], "none")}
  \cup MayFail("chdir", b, "temp")
  \cup MayFail("fork", [close_qqpipe(b) EXCEPT !.pid = 0], "temp")

data_start(b, fd, k) ==
  LET oneOpen  == [b EXCEPT !.epipe = k, !.qq[k].eopen = TRUE]
      bothOpen == [oneOpen EXCEPT !.mpipe = k, !.qq[k].mopen = TRUE]
  IN  MayFail("pipe", b, "temp")
      \cup (IF fd THEN {Returns(oneOpen, "none")}
            ELSE MayFail("pipe", close_qqpipe(oneOpen), "temp")
                 \cup start_qq(bothOpen, k, 0))

(***************************************************************************)
(* The parent keeps both ends of both pipes open: a write to a full pipe   *)
(* waits for the reader even when the reader is dead, and never gets       *)
(* EPIPE.                                                                  *)
(***************************************************************************)
data_block(b) ==
  IF b.mpipe = 0 THEN {Returns(b, "none")}
  ELSE MayFail("block", b, "temp")
       \cup (IF b.qq[b.mpipe].msg - b.qq[b.mpipe].got < PipeSize
             THEN {Returns([b EXCEPT !.qq[b.mpipe].msg = @ + 1], "none")}
             ELSE {})

\* Mutant of message_end: it leaves the message's pipe open.
message_end_keeping_pipe(b, fd, file) ==
  {IF response_ok(o.resp)
   THEN Returns([o.be EXCEPT !.phase = "envelope",
                             !.qq[o.be.epipe].env = Append(o.be.buf, EndMark)], "busy")
   ELSE o : o \in IF fd THEN start_qq(b, b.epipe, file) ELSE {Returns(b, "none")}}

\* Up to the first write of the envelope.
message_end(b, fd, file) ==
  LET closed  == [b EXCEPT !.mpipe = 0, !.qq = WithoutPipes(b.qq, 0, b.mpipe)]
      started == IF fd THEN start_qq(b, b.epipe, file) ELSE {Returns(closed, "none")}
      write(c) == [c EXCEPT !.phase = "envelope",
                            !.qq[c.epipe].env = Append(c.buf, EndMark)]
  IN  (IF fd THEN MayFail("lseek", b, "temp") ELSE {})
      \cup {IF response_ok(o.resp) THEN Returns(write(o.be), "busy") ELSE o :
              o \in started}

\* retry_write of the envelope: one entry, or the pipes closed after the last.
WriteEnvelope(b) ==
  LET q == b.qq[b.epipe]
  IN  IF q.sent = Len(q.env)
      THEN {Returns([close_qqpipe(b) EXCEPT !.phase = "waitpid"], "busy")}
      ELSE MayFail("envelope", [b EXCEPT !.phase = "idle"], "temp")
           \cup (IF q.sent - q.read < PipeSize
                 THEN {Returns([b EXCEPT !.qq[b.epipe].sent = @ + 1], "busy")}
                 ELSE {})

\* What is left of a process that has been waited for: what it queued.
Reaped(q) ==
  IF q.queued
  THEN [NoProcess EXCEPT !.st = "reaped", !.got = q.got, !.env = q.env, !.queued = TRUE]
  ELSE [NoProcess EXCEPT !.st = "reaped"]

\* Mutants of ParseStatus: it does not wait, or takes a killed process for a success.
ParseStatusNotWaiting(b) ==
  LET ended == b.qq[b.pid].st
  IN  {Returns([b EXCEPT !.phase = "idle"], IF ended \in {"ok", "perm"} THEN ended ELSE "temp")}

ParseStatusIgnoringSignals(b) ==
  LET ended == b.qq[b.pid].st
  IN  IF ended \notin Statuses THEN {}
      ELSE {Returns([b EXCEPT !.phase = "idle"], IF ended = "signal" THEN "ok" ELSE ended)}

\* waitpid, and parse_status of what it returns.
ParseStatus(b) ==
  LET st   == b.qq[b.pid].st
      done == [b EXCEPT !.phase = "idle", !.qq[b.pid] = Reaped(@)]
  IN  IF st = "ok"             THEN {Returns([done EXCEPT !.buf = <<Text>>], "ok")}
      ELSE IF st = "perm"      THEN {Returns(done, "perm")}
      ELSE IF st \in {"temp", "signal"} THEN {Returns(done, "temp")}
      ELSE {}

message_end_goes_on(b) ==
  IF b.phase = "envelope" THEN WriteEnvelope(b) ELSE ParseStatus(b)

-----------------------------------------------------------------------------
(* qmail-queue (external).  It reads the message to its end, then the      *)
(* envelope; it queues the message once it has read an envelope that       *)
(* starts with a sender and is complete, and only then exits 0.            *)

Complete(env) == env # <<>> /\ Head(env)[1] = "F" /\ env[Len(env)] = EndMark

\* It has read all there is, and knows that no more will come.
AtEnd(q) == /\ ~ q.mopen /\ q.got = q.msg /\ q.read = q.sent
            /\ ~ q.eopen \/ (q.env # <<>> /\ q.read = Len(q.env))

Usable(q) == Complete(q.env) /\ q.read = Len(q.env)

ReadsBlock(q) ==
  IF q.got < q.msg THEN {[q EXCEPT !.got = @ + 1]} ELSE {}

ReadsEntry(q) ==
  IF ~ q.mopen /\ q.got = q.msg /\ q.read < q.sent
  THEN {[q EXCEPT !.read = @ + 1]} ELSE {}

Queues(q) ==
  IF ~ q.queued /\ AtEnd(q) /\ Usable(q) THEN {[q EXCEPT !.queued = TRUE]} ELSE {}

Finishes(q) ==
  IF q.queued THEN {[q EXCEPT !.st = "ok"]}
  ELSE IF AtEnd(q) /\ ~ Usable(q) THEN {[q EXCEPT !.st = "temp"]} ELSE {}

\* What it does of itself ...
Proceeds(q) == ReadsBlock(q) \cup ReadsEntry(q) \cup Queues(q) \cup Finishes(q)

\* ... and what may befall it: a failure it reports, or a signal.
Fails(q) ==
  {[q EXCEPT !.st = "signal"]}
  \cup (IF q.queued THEN {} ELSE {[q EXCEPT !.st = s] : s \in {"perm", "temp"}})

=============================================================================
