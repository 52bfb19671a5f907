------------------------------- MODULE Queuedir -------------------------------
(***************************************************************************)
(* queuedir.c and backend-queuedir.c, and the directory they write to.     *)
(*                                                                         *)
(* The backend writes the envelope and the message to a file of tmp/       *)
(* through a buffered output, syncs it, links it into new/, syncs the      *)
(* directory and unlinks the first name.  message_end is one step for each *)
(* of its system calls, since SIGALRM, a kill, a power failure and the     *)
(* program that takes files out of new/ may come between any two.          *)
(*                                                                         *)
(* The buffered output is bglibs' obuf, another program: what this code    *)
(* relies on is that it remembers an error and then fails, closed or not.  *)
(***************************************************************************)
EXTENDS Responses

CONSTANTS
  Address,     \* the mail addresses
  MaxMessages, \* messages of one session (a bound; the code has none)
  Clock,       \* what gettimeofday may return (with the pid, a file's name)
  DirFaults    \* the calls that may fail here, of DirFaultNames

DirFaultNames == {"config", "names", "create", "write", "scratch", "scratchwrite",
                  "copy", "flush", "link", "dirsync"}

ASSUME QueuedirAssumption ==
  /\ MaxMessages \in Nat
  /\ DirFaults \subseteq DirFaultNames

Message == 1 .. MaxMessages

\* What a file holds, item by item: addresses with their NUL, the NUL that ends
\* the envelope, and blocks.
From(a) == <<"from", a>>
To(a)   == <<"to", a>>
Nul     == <<"nul">>
Block   == <<"block">>

Item == {From(a) : a \in Address} \cup {To(a) : a \in Address} \cup {Nul, Block}

(***************************************************************************)
(* A file of new/: its name, the message it was written for, what it       *)
(* holds, and whether its data and its entry would survive a power failure.*)
(***************************************************************************)
File == [name : Clock, of : Message, data : Seq(Item), safe : BOOLEAN, entry : BOOLEAN]

(***************************************************************************)
(* State:                                                                  *)
(*   name   the file name in tempname.s and destname.s, which outlives ... *)
(*   tlen   tempname.len # 0                                               *)
(*   dlen   destname.len # 0                                               *)
(*   out    msgbuf: "closed", "open" or "bad", and all that was put in it  *)
(*   tmpfd  tmpfd > 0                                                      *)
(*   blocks the blocks in tmpfd                                            *)
(*   n      the message whose data was started last                        *)
(*   phase  the next step of message_end                                   *)
(*   sync   the _NOSYNC variable is not set                                *)
(*   tmp    the names in tmp/                                              *)
(*   new    the files in new/                                              *)
(*   taken  the files taken out of new/ by the program that empties it     *)
(*   fate   whether this process and the machine still run                 *)
(***************************************************************************)
NoName == "noname"
Closed == [st |-> "closed", data |-> <<>>]

QueuedirInit(sync) ==
  [name |-> NoName, tlen |-> FALSE, dlen |-> FALSE, out |-> Closed, tmpfd |-> FALSE,
   blocks |-> 0, n |-> 0, phase |-> "idle", sync |-> sync,
   tmp |-> {}, new |-> {}, taken |-> {}, fate |-> "up"]

QueuedirState ==
  [name : Clock \cup {NoName}, tlen : BOOLEAN, dlen : BOOLEAN,
   out : [st : {"closed", "open", "bad"}, data : Seq(Item)], tmpfd : BOOLEAN,
   blocks : Nat, n : 0 .. MaxMessages,
   phase : {"idle", "sync", "link", "dirsync", "unlink"}, sync : BOOLEAN,
   tmp : SUBSET Clock, new : SUBSET File, taken : SUBSET File,
   fate : {"up", "killed", "down"}]

Returns(b, r) == [be |-> b, resp |-> r]
MayFail(fault, b, r) == IF fault \in DirFaults THEN {Returns(b, r)} ELSE {}

-----------------------------------------------------------------------------
(* The buffered output (external)                                          *)

\* Items are put in it, or it fails, now and ever after.
Puts(b, items) ==
  IF b.out.st # "open" THEN {Returns(b, "temp")}
  ELSE {Returns([b EXCEPT !.out.data = @ \o items], "none")}
       \cup MayFail("write", [b EXCEPT !.out.st = "bad"], "temp")

-----------------------------------------------------------------------------
(* The hooks                                                               *)

\* Mutant of queuedir_reset: it forgets the file in new/.
queuedir_reset_tmp_only(b) ==
  [b EXCEPT !.tmp = IF b.tlen THEN @ \ {b.name} ELSE @,
            !.tlen = FALSE, !.dlen = FALSE, !.phase = "idle"]

\* Mutant of queuedir_reset: it empties the names first.
queuedir_reset_too_late(b) == [b EXCEPT !.tlen = FALSE, !.dlen = FALSE, !.phase = "idle"]

queuedir_reset(b) ==
  [b EXCEPT !.tmp = IF b.tlen THEN @ \ {b.name} ELSE @,
            !.new = IF b.dlen THEN {f \in @ : f.name # b.name} ELSE @,
            !.tlen = FALSE, !.dlen = FALSE, !.phase = "idle"]

\* make_filenames goes round until it finds a name that is in neither directory.
FreeNames(b) == Clock \ (b.tmp \cup {f.name : f \in b.new})

queuedir_sender(b, a) ==
  LET named(t)  == [b EXCEPT !.name = t, !.tlen = TRUE, !.dlen = TRUE, !.out = Closed]
      opened(t) == [named(t) EXCEPT !.tmp = @ \cup {t}, !.out.st = "open"]
      written(o) == IF response_ok(o.resp) THEN o
                    ELSE Returns(queuedir_reset(o.be), o.resp)
  IN  MayFail("config", b, "temp")
      \cup UNION {(UNION {MayFail("names", [b EXCEPT !.name = t, !.tlen = TRUE, !.dlen = both],
                                  "temp") : both \in BOOLEAN})
                  \cup MayFail("create", named(t), "temp")
                  \cup {written(o) : o \in Puts(opened(t), <<From(a)>>)} :
                    t \in FreeNames(b)}

queuedir_recipient(b, a) == Puts(b, <<To(a)>>)

\* Without a file, for want of a sender, the message goes to a scratch file.
queuedir_data_start(b0, fd, k) ==
  LET b == [b0 EXCEPT !.n = k]
  IN  IF b.dlen
      THEN Puts([b EXCEPT !.tmpfd = FALSE], <<Nul>>)
      ELSE {Returns([b EXCEPT !.tmpfd = TRUE, !.blocks = 0], "none")}
           \cup MayFail("scratch", [b EXCEPT !.tmpfd = FALSE], "temp")

queuedir_data_block(b) ==
  IF b.tmpfd
  THEN {Returns([b EXCEPT !.blocks = @ + 1], "none")}
       \cup MayFail("scratchwrite", b, "temp")
  ELSE Puts(b, <<Block>>)

(***************************************************************************)
(* message_end, step by step.  Its failures before the flush do not reset, *)
(* but the container does.                                                 *)
(***************************************************************************)
Step(b, phase) == Returns([b EXCEPT !.phase = phase], "busy")

\* Copying the scratch file, if there is one, behind the envelope.
queuedir_message_end(b, fd, file) ==
  LET copied == [b EXCEPT !.tmpfd = FALSE]
  IN  IF ~ b.tmpfd THEN {Step(b, "sync")}
      ELSE MayFail("copy", copied, "temp")
           \cup {IF response_ok(o.resp) THEN Step(o.be, "sync") ELSE o :
                   o \in Puts(copied, [i \in 1 .. b.blocks |-> Block])}

SyncAndClose(b) ==
  IF b.out.st # "open" THEN {Returns(queuedir_reset(b), "temp")}
  ELSE {Step([b EXCEPT !.out.st = "closed"], "link")}
       \cup MayFail("flush", queuedir_reset([b EXCEPT !.out.st = "bad"]), "temp")

Linked(b, safe) ==
  IF b.name \in b.tmp /\ b.name \notin {f.name : f \in b.new}
  THEN {Step([b EXCEPT !.new = @ \cup {[name |-> b.name, of |-> b.n, data |-> b.out.data,
                                        safe |-> safe, entry |-> FALSE]}],
             IF b.sync THEN "dirsync" ELSE "unlink")}
       \cup MayFail("link", queuedir_reset(b), "temp")
  ELSE {Returns(queuedir_reset(b), "temp")}

\* Mutant of Link: the contents are not synced before it.
LinkUnsynced(b) == Linked(b, FALSE)

Link(b) == Linked(b, b.sync)

SyncDirectory(b) ==
  {Step([b EXCEPT !.new = {[f EXCEPT !.entry = TRUE] : f \in @}], "unlink")}
  \cup MayFail("dirsync", queuedir_reset(b), "temp")

\* Mutant of Unlink: destname still names the file in new/.
UnlinkKeepingDestname(b) ==
  {Returns([b EXCEPT !.tmp = @ \ {b.name}, !.tlen = FALSE, !.phase = "idle"], "none")}

Unlink(b) ==
  {Returns([b EXCEPT !.tmp = @ \ {b.name}, !.tlen = FALSE, !.dlen = FALSE,
                     !.phase = "idle"], "none")}

queuedir_message_end_goes_on(b) ==
  CASE b.phase = "sync"    -> SyncAndClose(b)
    [] b.phase = "link"    -> Link(b)
    [] b.phase = "dirsync" -> SyncDirectory(b)
    [] b.phase = "unlink"  -> Unlink(b)

-----------------------------------------------------------------------------
(* The world outside (external)                                            *)

\* The program that empties new/ takes a file.
Takes(b) ==
  {[b EXCEPT !.new = @ \ {f}, !.taken = @ \cup {f}] : f \in b.new}

(***************************************************************************)
(* The power fails: entries that were not synced may be lost, and data     *)
(* that was not synced cut short.                                          *)
(***************************************************************************)
Survivors(f) ==
  IF f.safe THEN {f}
  ELSE {[f EXCEPT !.data = SubSeq(@, 1, i)] : i \in 0 .. Len(f.data)}

PowerFails(b) ==
  {[b EXCEPT !.fate = "down", !.new = left] :
     left \in {s \in SUBSET UNION {Survivors(f) : f \in b.new} :
                 \A f \in b.new :
                   LET of(g) == g.name = f.name
                       kept  == {g \in s : of(g)}
                   IN  Cardinality(kept) \in (IF f.entry THEN {1} ELSE {0, 1})}}

-----------------------------------------------------------------------------
(* What the backend owes the client, whatever protocol drives it.  mail is *)
(* the protocol's history of messages.                                     *)

Stored(b) == b.new \cup b.taken
StoredMessages(b) == {f.of : f \in Stored(b)}

\* Nothing is promised of unsynced files once the power has failed.
Promised(b) == b.fate # "down" \/ b.sync

\* The format of backend-queuedir.html.
Envelope(o) == [i \in DOMAIN o.from |-> From(o.from[i])] \o [i \in DOMAIN o.to |-> To(o.to[i])]
Format(m)   == Envelope(m.offer) \o <<Nul>> \o [i \in 1 .. m.blocks |-> Block]

StoredIsWhole(b, mail) ==
  Promised(b) => \A f \in Stored(b) : f.data = Format(mail[f.of])

AcceptedIsStored(b, mail) ==
  Promised(b) => \A k \in Message : mail[k].verdict = "ack" => \E f \in Stored(b) : f.of = k

RefusedIsRemoved(b, mail) ==
  b.fate # "down" =>
    \A f \in b.new : mail[f.of].verdict \notin {"nak", "cut"}

NothingLeftInTmp(b, closed) == closed /\ b.fate = "up" => b.tmp = {}

=============================================================================
