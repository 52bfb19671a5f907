---------------------------- MODULE Queuedir_proof ----------------------------
(***************************************************************************)
(* What the hooks of the queue directory backend do to the directory, for  *)
(* any clock, addresses and failing calls, and whatever protocol calls     *)
(* them: a reset removes the file of the message under way, and no other.  *)
(***************************************************************************)
EXTENDS Queuedir, FiniteSetTheorems, SequenceTheorems, TLAPS

-----------------------------------------------------------------------------
(* The invariant of the backend                                            *)

\* Between link and unlink the file of this message has both names.
Linking(b) == b.phase \in {"dirsync", "unlink"}

\* The directory while the machine runs: no name is there twice, and what it
\* holds was synced if anything is.
Directory(b) ==
  /\ b \in QueuedirState
  /\ b.fate # "down" =>
       /\ \A f \in b.new : f.safe = b.sync
       /\ \A f, g \in b.new : f.name = g.name => f = g

\* The process while it runs: only what it has just linked has its name in new/.
Live(b) ==
  /\ b.fate = "up"
  /\ b.tmp \subseteq (IF b.tlen THEN {b.name} ELSE {})
  /\ Linking(b) => b.dlen
  /\ b.dlen => \A f \in b.new : f.name = b.name => Linking(b) /\ f.of = b.n

\* Message k is stored, so that it would survive a power failure if any would.
Lasting(b, k) ==
  \/ \E f \in b.taken : f.of = k
  \/ \E f \in b.new : f.of = k /\ (b.sync => f.entry)

(***************************************************************************)
(* The files and the client's history: W[k] is what the file of message k  *)
(* may hold, now the message whose file is linked and which is not yet     *)
(* answered, 0 if there is none.                                           *)
(***************************************************************************)
Files(b, mail, W, now) ==
  /\ Promised(b) => \A f \in Stored(b) : f.data \in W[f.of]
  /\ \A f \in Stored(b) : mail[f.of].verdict \in {"ack", "nak", "unknown"} \/ f.of = now
  /\ b.fate # "down" =>
       \A f \in b.new : \/ mail[f.of].verdict \in {"ack", "unknown"}
                        \/ f.of = now /\ f.name = b.name
  /\ Promised(b) => \A k \in Message : mail[k].verdict = "ack" => Lasting(b, k)

\* The names are kept and emptied together, and the file under them holds one of D.
Writes(b, D) ==
  /\ b.tlen = b.dlen
  /\ b.dlen /\ (b.out.st = "open" \/ b.phase = "link") => b.out.data \in D

\* In message_end the file is whole, then linked, then linked for good.
EndIsSafe(b, W) ==
  /\ b.phase \in {"sync", "link"} => Writes(b, W[b.n])
  /\ b.phase = "dirsync" => b.sync /\ \E f \in Stored(b) : f.of = b.n
  /\ b.phase = "unlink" => Lasting(b, b.n)

\* Nothing is left of a message that was not answered but what was taken before.
Clear(c, mail, W, now) ==
  /\ Directory(c) /\ Live(c) /\ Files(c, mail, W, now)
  /\ ~ c.tlen /\ ~ c.dlen /\ c.phase = "idle" /\ c.tmp = {}
  /\ \A f \in c.new : f.of # now


-----------------------------------------------------------------------------
(* What each hook does to the state                                        *)

\* A reset forgets the names and removes what they name, and nothing else.
LEMMA ResetOutcome ==
  ASSUME NEW b \in QueuedirState
  PROVE  LET c == queuedir_reset(b)
         IN  /\ c \in QueuedirState
             /\ ~ c.tlen /\ ~ c.dlen /\ c.phase = "idle"
             /\ c.tmp = IF b.tlen THEN b.tmp \ {b.name} ELSE b.tmp
             /\ c.new = IF b.dlen THEN {f \in b.new : f.name # b.name} ELSE b.new
             /\ c.taken = b.taken /\ c.n = b.n /\ c.sync = b.sync /\ c.fate = b.fate
             /\ c.blocks = b.blocks
  BY ZenonT(60) DEF queuedir_reset, QueuedirState

\* A hook leaves the directory, and the message it is about, alone.
Leaves(b, c) ==
  /\ c \in QueuedirState
  /\ c.tmp = b.tmp /\ c.new = b.new /\ c.taken = b.taken
  /\ c.name = b.name /\ c.tlen = b.tlen /\ c.dlen = b.dlen
  /\ c.sync = b.sync /\ c.fate = b.fate

\* What a hook may change besides.
Output == [st : {"closed", "open", "bad"}, data : Seq(Item)]

LEMMA LeavesOutput ==
  ASSUME NEW b \in QueuedirState, NEW out \in Output
  PROVE  LET c == [b EXCEPT !.out = out]
         IN  /\ Leaves(b, c) /\ c.out = out /\ c.n = b.n /\ c.phase = b.phase
             /\ c.tmpfd = b.tmpfd /\ c.blocks = b.blocks
<1> DEFINE c == [b EXCEPT !.out = out]
<1>1. c \in QueuedirState
  BY DEF QueuedirState, Output
<1> QED BY <1>1 DEF QueuedirState, Leaves

LEMMA LeavesNumber ==
  ASSUME NEW b \in QueuedirState, NEW k \in Message
  PROVE  LET c == [b EXCEPT !.n = k]
         IN  Leaves(b, c) /\ c.out = b.out /\ c.n = k /\ c.phase = b.phase /\ c.blocks = b.blocks
<1> DEFINE c == [b EXCEPT !.n = k]
<1>1. k \in 0 .. MaxMessages
  BY QueuedirAssumption DEF Message
<1>2. c \in QueuedirState
  BY <1>1 DEF QueuedirState
<1> QED BY <1>2 DEF QueuedirState, Leaves

LEMMA LeavesScratch ==
  ASSUME NEW b \in QueuedirState, NEW fd \in BOOLEAN
  PROVE  LET c == [b EXCEPT !.tmpfd = fd]
         IN  /\ Leaves(b, c) /\ c.out = b.out /\ c.n = b.n /\ c.phase = b.phase
             /\ c.tmpfd = fd /\ c.blocks = b.blocks
<1> DEFINE c == [b EXCEPT !.tmpfd = fd]
<1>1. c \in QueuedirState
  BY DEF QueuedirState
<1> QED BY <1>1 DEF QueuedirState, Leaves

LEMMA LeavesBlocks ==
  ASSUME NEW b \in QueuedirState, NEW k \in Nat
  PROVE  LET c == [b EXCEPT !.blocks = k]
         IN  /\ Leaves(b, c) /\ c.out = b.out /\ c.n = b.n /\ c.phase = b.phase
             /\ c.tmpfd = b.tmpfd /\ c.blocks = k
<1> DEFINE c == [b EXCEPT !.blocks = k]
<1>1. c \in QueuedirState
  BY DEF QueuedirState
<1> QED BY <1>1 DEF QueuedirState, Leaves

LEMMA LeavesPhase ==
  ASSUME NEW b \in QueuedirState, NEW phase \in {"idle", "sync", "link", "dirsync", "unlink"}
  PROVE  LET c == [b EXCEPT !.phase = phase]
         IN  Leaves(b, c) /\ c.out = b.out /\ c.n = b.n /\ c.phase = phase
<1> DEFINE c == [b EXCEPT !.phase = phase]
<1>1. c \in QueuedirState
  BY DEF QueuedirState
<1> QED BY <1>1 DEF QueuedirState, Leaves

\* What one hook leaves alone after another, both do.
LEMMA LeavesTransitive ==
  ASSUME NEW b, NEW c, NEW d, Leaves(b, c), Leaves(c, d)
  PROVE  Leaves(b, d)
  BY DEF Leaves

\* The buffered output takes all items, or none and no more of them.
LEMMA PutsOutcome ==
  ASSUME NEW b \in QueuedirState, NEW items \in Seq(Item), NEW o \in Puts(b, items)
  PROVE  /\ Leaves(b, o.be) /\ o.be.blocks = b.blocks
         /\ o.be.n = b.n /\ o.be.phase = b.phase /\ o.be.tmpfd = b.tmpfd
         /\ \/ /\ o.resp = "none" /\ b.out.st = "open" /\ o.be.out.st = "open"
               /\ o.be.out.data = b.out.data \o items
            \/ /\ o.resp = "temp" /\ o.be.out.st # "open"
<1>1. b.out \in Output
  BY DEF QueuedirState, Output
<1>2. CASE b.out.st # "open" /\ o = Returns(b, "temp")
  BY <1>2 DEF Returns, Leaves
<1>3. CASE b.out.st = "open" /\ o = Returns([b EXCEPT !.out.data = @ \o items], "none")
  <2> DEFINE out == [b.out EXCEPT !.data = b.out.data \o items]
  <2>1. out \in Output /\ out.st = "open" /\ out.data = b.out.data \o items
    <3>1. b.out.data \o items \in Seq(Item)
      BY <1>1 DEF Output
    <3> QED BY <1>1, <1>3, <3>1 DEF Output
  <2>2. o = Returns([b EXCEPT !.out = out], "none")
    BY <1>3
  <2> HIDE DEF out
  <2> DEFINE c == [b EXCEPT !.out = out]
  <2>3. o.be = c /\ o.resp = "none"
    BY <2>2 DEF Returns
  <2>4. /\ Leaves(b, c) /\ c.out = out /\ c.n = b.n /\ c.phase = b.phase
        /\ c.tmpfd = b.tmpfd /\ c.blocks = b.blocks
    BY <2>1, LeavesOutput
  <2> HIDE DEF c
  <2> QED BY <1>3, <2>1, <2>3, <2>4
<1>4. CASE o = Returns([b EXCEPT !.out.st = "bad"], "temp")
  <2> DEFINE out == [b.out EXCEPT !.st = "bad"]
  <2>1. out \in Output /\ out.st = "bad"
    BY <1>1 DEF Output
  <2>2. o = Returns([b EXCEPT !.out = out], "temp")
    BY <1>4
  <2> HIDE DEF out
  <2>3. o.be = [b EXCEPT !.out = out] /\ o.resp = "temp"
    BY <2>2 DEF Returns
  <2> QED BY <2>1, <2>3, LeavesOutput
<1> QED BY <1>2, <1>3, <1>4 DEF Puts, MayFail

\* The body of a message.
Blocks(n) == [i \in 1 .. n |-> Block]

\* The items are items.
LEMMA ItemsAreItems ==
  /\ \A a \in Address : From(a) \in Item /\ To(a) \in Item
  /\ Nul \in Item /\ Block \in Item
  BY DEF Item

\* recipient puts the address behind the envelope so far.
LEMMA RecipientOutcome ==
  ASSUME NEW b \in QueuedirState, NEW a \in Address, NEW o \in queuedir_recipient(b, a)
  PROVE  /\ Leaves(b, o.be) /\ o.be.blocks = b.blocks
         /\ o.be.n = b.n /\ o.be.phase = b.phase /\ o.be.tmpfd = b.tmpfd
         /\ \/ /\ o.resp = "none" /\ b.out.st = "open" /\ o.be.out.st = "open"
               /\ o.be.out.data = b.out.data \o <<To(a)>>
            \/ /\ o.resp = "temp" /\ o.be.out.st # "open"
<1>1. <<To(a)>> \in Seq(Item)
  BY ItemsAreItems
<1> QED BY <1>1, PutsOutcome DEF queuedir_recipient

\* data_start ends the envelope of the file, if there is one, or turns to a
\* scratch file.
LEMMA DataStartOutcome ==
  ASSUME NEW b \in QueuedirState, NEW fd, NEW k \in Message,
         NEW o \in queuedir_data_start(b, fd, k)
  PROVE  /\ Leaves(b, o.be)
         /\ o.be.n = k /\ o.be.phase = b.phase
         /\ b.dlen => ~ o.be.tmpfd
         /\ \/ /\ o.resp = "none"
               /\ b.dlen => /\ b.out.st = "open" /\ o.be.out.st = "open"
                            /\ o.be.out.data = b.out.data \o <<Nul>>
               /\ ~ b.dlen => o.be.blocks = 0
            \/ o.resp = "temp"
<1> DEFINE c == [b EXCEPT !.n = k]
           d == [c EXCEPT !.tmpfd = FALSE]
           s == [c EXCEPT !.tmpfd = TRUE]
           e == [s EXCEPT !.blocks = 0]
<1>1. c \in QueuedirState /\ Leaves(b, c) /\ c.n = k /\ c.phase = b.phase /\ c.out = b.out
  BY LeavesNumber DEF Leaves
<1> HIDE DEF c
<1>2. /\ Leaves(c, d) /\ d.n = c.n /\ d.phase = c.phase /\ d.out = c.out /\ ~ d.tmpfd
      /\ Leaves(c, e) /\ e.n = c.n /\ e.phase = c.phase /\ e.blocks = 0
  <2>1. Leaves(c, d) /\ d.n = c.n /\ d.phase = c.phase /\ d.out = c.out /\ d.tmpfd = FALSE
    BY <1>1, LeavesScratch
  <2>2. Leaves(c, s) /\ s.n = c.n /\ s.phase = c.phase /\ s \in QueuedirState
    BY <1>1, LeavesScratch DEF Leaves
  <2> HIDE DEF s
  <2>3. Leaves(s, e) /\ e.n = s.n /\ e.phase = s.phase /\ e.blocks = 0
    BY <2>2, LeavesBlocks
  <2> HIDE DEF e
  <2>4. Leaves(c, e)
    BY <2>2, <2>3, LeavesTransitive
  <2> QED BY <2>1, <2>2, <2>3, <2>4
<1>3. <<Nul>> \in Seq(Item)
  BY ItemsAreItems
<1>4. CASE b.dlen
  <2>1. o \in Puts(d, <<Nul>>)
    BY <1>1, <1>4 DEF queuedir_data_start, Leaves, c
  <2> HIDE DEF d, e
  <2>2. /\ Leaves(d, o.be) /\ o.be.n = d.n /\ o.be.phase = d.phase /\ o.be.tmpfd = d.tmpfd
        /\ \/ /\ o.resp = "none" /\ d.out.st = "open" /\ o.be.out.st = "open"
              /\ o.be.out.data = d.out.data \o <<Nul>>
           \/ o.resp = "temp"
    BY <1>2, <1>3, <2>1, PutsOutcome DEF Leaves
  <2>3. Leaves(b, o.be)
    BY <1>1, <1>2, <2>2, LeavesTransitive
  <2> QED BY <1>1, <1>2, <1>4, <2>2, <2>3
<1>5. CASE ~ b.dlen
  <2>1. o = Returns(e, "none") \/ o = Returns(d, "temp")
    BY <1>1, <1>5 DEF queuedir_data_start, MayFail, Leaves, c
  <2> HIDE DEF d, e
  <2>2. (o.be = e /\ o.resp = "none") \/ (o.be = d /\ o.resp = "temp")
    BY <2>1 DEF Returns
  <2>3. Leaves(b, o.be)
    BY <1>1, <1>2, <2>2, LeavesTransitive
  <2>4. o.be.n = k /\ o.be.phase = b.phase
    BY <1>1, <1>2, <2>2
  <2>5. o.resp = "none" => o.be.blocks = 0
    BY <1>2, <2>2
  <2> QED BY <1>5, <2>2, <2>3, <2>4, <2>5
<1> QED BY <1>4, <1>5

\* data_block puts the block behind what there is, in the file or the scratch file.
LEMMA DataBlockOutcome ==
  ASSUME NEW b \in QueuedirState, NEW o \in queuedir_data_block(b)
  PROVE  /\ Leaves(b, o.be)
         /\ o.be.n = b.n /\ o.be.phase = b.phase /\ o.be.tmpfd = b.tmpfd
         /\ o.be.blocks \in {b.blocks, b.blocks + 1}
         /\ ~ b.tmpfd /\ o.be.out.st = "open"
              => b.out.st = "open" /\ o.be.out.data = b.out.data \o <<Block>>
<1>1. <<Block>> \in Seq(Item)
  BY ItemsAreItems
<1>2. CASE b.tmpfd
  <2> DEFINE e == [b EXCEPT !.blocks = b.blocks + 1]
  <2>1. o = Returns(e, "none") \/ o = Returns(b, "temp")
    BY <1>2 DEF queuedir_data_block, MayFail
  <2>2. /\ Leaves(b, e) /\ e.n = b.n /\ e.phase = b.phase /\ e.tmpfd = b.tmpfd
        /\ e.blocks = b.blocks + 1
    <3>1. b.blocks + 1 \in Nat
      BY DEF QueuedirState
    <3> QED BY <3>1, LeavesBlocks
  <2>3. Leaves(b, b)
    BY DEF Leaves
  <2> HIDE DEF e
  <2>4. o.be \in {b, e}
    BY <2>1 DEF Returns
  <2> QED BY <1>2, <2>2, <2>3, <2>4
<1>3. CASE ~ b.tmpfd
  <2>1. o \in Puts(b, <<Block>>)
    BY <1>3 DEF queuedir_data_block
  <2> QED BY <1>1, <2>1, PutsOutcome
<1> QED BY <1>2, <1>3

\* What is in the scratch file, if there is one, goes behind the envelope.
Copied(b, c) ==
  IF b.tmpfd THEN b.out.st = "open" /\ c.out.data = b.out.data \o Blocks(b.blocks)
  ELSE c.out = b.out

\* message_end begins by copying the scratch file.
LEMMA MessageEndOutcome ==
  ASSUME NEW b \in QueuedirState, NEW fd, NEW file, NEW o \in queuedir_message_end(b, fd, file)
  PROVE  /\ Leaves(b, o.be)
         /\ o.be.n = b.n
         /\ \/ o.resp = "busy" /\ o.be.phase = "sync" /\ Copied(b, o.be)
            \/ o.resp = "temp" /\ o.be.phase = b.phase
<1> DEFINE copied == [b EXCEPT !.tmpfd = FALSE]
           items  == Blocks(b.blocks)
<1>1. /\ Leaves(b, copied) /\ copied.n = b.n /\ copied.phase = b.phase
      /\ copied \in QueuedirState /\ copied.out = b.out
  BY DEF QueuedirState, Leaves
<1>2. items \in Seq(Item)
  <2>1. b.blocks \in Nat
    BY DEF QueuedirState
  <2> QED BY <2>1, ItemsAreItems, IsASeq DEF Blocks
<1>3. ASSUME NEW c \in QueuedirState
      PROVE  LET s == Step(c, "sync")
             IN  /\ Leaves(c, s.be) /\ s.be.n = c.n /\ s.be.phase = "sync"
                 /\ s.be.out = c.out /\ s.resp = "busy"
  BY DEF Step, Returns, Leaves, QueuedirState
<1>4. CASE ~ b.tmpfd
  <2>1. o = Step(b, "sync")
    BY <1>4 DEF queuedir_message_end
  <2> QED BY <1>3, <1>4, <2>1 DEF Copied
<1>5. CASE b.tmpfd
  <2> HIDE DEF copied, items
  <2>1. \/ o = Returns(copied, "temp")
        \/ \E p \in Puts(copied, items) :
             o = IF response_ok(p.resp) THEN Step(p.be, "sync") ELSE p
    BY <1>5 DEF queuedir_message_end, MayFail, copied, items, Blocks
  <2>2. CASE o = Returns(copied, "temp")
    BY <1>1, <2>2 DEF Returns
  <2>3. ASSUME NEW p \in Puts(copied, items),
               o = IF response_ok(p.resp) THEN Step(p.be, "sync") ELSE p
        PROVE  /\ Leaves(b, o.be)
               /\ o.be.n = b.n
               /\ \/ /\ o.resp = "busy" /\ o.be.phase = "sync"
                     /\ b.out.st = "open" /\ o.be.out.data = b.out.data \o items
                  \/ o.resp = "temp" /\ o.be.phase = b.phase
    <3>1. /\ Leaves(copied, p.be) /\ p.be.n = b.n /\ p.be.phase = b.phase
          /\ \/ /\ p.resp = "none" /\ b.out.st = "open"
                /\ p.be.out.data = b.out.data \o items
             \/ p.resp = "temp"
      <4>1. /\ Leaves(copied, p.be) /\ p.be.n = copied.n /\ p.be.phase = copied.phase
            /\ \/ /\ p.resp = "none" /\ copied.out.st = "open"
                  /\ p.be.out.data = copied.out.data \o items
               \/ p.resp = "temp"
        BY ONLY <1>1, <1>2, p \in Puts(copied, items), PutsOutcome
      <4> QED BY <1>1, <4>1
    <3>2. Leaves(b, p.be) /\ p.be \in QueuedirState
      BY <1>1, <3>1 DEF Leaves
    <3>3. CASE p.resp = "none"
      <4>1. o = Step(p.be, "sync")
        BY <2>3, <3>3 DEF response_ok
      <4>2. /\ Leaves(p.be, o.be) /\ o.be.n = p.be.n /\ o.be.phase = "sync" /\ o.resp = "busy"
            /\ o.be.out = p.be.out
        BY <1>3, <3>2, <4>1
      <4> QED BY <3>1, <3>2, <3>3, <4>2 DEF Leaves
    <3>4. CASE p.resp = "temp"
      BY <2>3, <3>1, <3>2, <3>4 DEF response_ok
    <3> QED BY <3>1, <3>3, <3>4
  <2> QED BY <1>5, <2>1, <2>2, <2>3 DEF items, Copied
<1> QED BY <1>4, <1>5


\* What message_end does before the file is linked, and what comes before it,
\* keeps the directory and the process as they are.
LEMMA LeavesKeeps ==
  ASSUME NEW b, NEW c, Directory(b), Live(b), Leaves(b, c),
         ~ Linking(b), ~ Linking(c)
  PROVE  Directory(c) /\ Live(c)
  BY DEF Directory, Live, Leaves

\* sender takes a name that is free, and opens the file under it or refuses.
LEMMA SenderOutcome ==
  ASSUME NEW b, Directory(b), Live(b), ~ b.tlen, ~ b.dlen, b.phase = "idle",
         NEW a \in Address, NEW o \in queuedir_sender(b, a)
  PROVE  /\ Directory(o.be) /\ Live(o.be)
         /\ o.be.new = b.new /\ o.be.taken = b.taken /\ o.be.sync = b.sync
         /\ o.be.phase = "idle" /\ o.be.fate = b.fate /\ o.be.n = b.n /\ o.be.blocks = b.blocks
         /\ \/ o.resp = "temp"
            \/ /\ o.resp = "none" /\ o.be.tlen /\ o.be.dlen
               /\ o.be.out.data = <<From(a)>>
<1> DEFINE Same(c) == /\ c \in QueuedirState /\ c.new = b.new /\ c.taken = b.taken
                      /\ c.sync = b.sync /\ c.phase = "idle" /\ c.fate = b.fate /\ c.n = b.n
                      /\ c.blocks = b.blocks
           names(t, both) == [b EXCEPT !.name = t, !.tlen = TRUE, !.dlen = both]
           named(t) == [b EXCEPT !.name = t, !.tlen = TRUE, !.dlen = TRUE, !.out = Closed]
           file(t) == [b EXCEPT !.name = t, !.tlen = TRUE, !.dlen = TRUE,
                                !.tmp = b.tmp \cup {t}, !.out = [Closed EXCEPT !.st = "open"]]
           opened(t) == [named(t) EXCEPT !.tmp = @ \cup {t}, !.out.st = "open"]
           written(p) == IF response_ok(p.resp) THEN p
                         ELSE Returns(queuedir_reset(p.be), p.resp)
<1>1. b \in QueuedirState /\ b.fate = "up" /\ b.tmp = {}
  BY DEF Directory, Live
<1>2. ASSUME NEW c, Same(c), c.tmp \subseteq (IF c.tlen THEN {c.name} ELSE {}),
             c.dlen => \A f \in b.new : f.name # c.name
      PROVE  Directory(c) /\ Live(c)
  BY <1>1, <1>2 DEF Directory, Live, Linking
<1>3. <<>> \in Seq(Item) /\ <<From(a)>> \in Seq(Item)
  BY ItemsAreItems
<1>4. ASSUME NEW t \in FreeNames(b)
      PROVE  /\ t \in Clock /\ \A f \in b.new : f.name # t
             /\ \A both \in BOOLEAN : Same(names(t, both)) /\ names(t, both).tmp = {}
                                      /\ names(t, both).name = t
             /\ Same(named(t)) /\ named(t).tmp = {} /\ named(t).name = t
             /\ opened(t) = file(t)
             /\ Same(file(t)) /\ file(t).tmp = {t} /\ file(t).name = t
             /\ file(t).tlen /\ file(t).dlen
             /\ file(t).out = [st |-> "open", data |-> <<>>]
  <2>1. t \in Clock /\ \A f \in b.new : f.name # t
    BY <1>4 DEF FreeNames
  <2>2. Closed \in Output /\ [Closed EXCEPT !.st = "open"] \in Output
        /\ [Closed EXCEPT !.st = "open"] = [st |-> "open", data |-> <<>>]
    <3>1. Closed = [st |-> "closed", data |-> <<>>]
      BY DEF Closed
    <3>2. [st |-> "open", data |-> <<>>] \in Output /\ [st |-> "closed", data |-> <<>>] \in Output
      BY <1>3 DEF Output
    <3>3. [Closed EXCEPT !.st = "open"] = [st |-> "open", data |-> <<>>]
      BY <3>1
    <3> QED BY <3>1, <3>2, <3>3
  <2>3. ASSUME NEW both \in BOOLEAN
        PROVE  Same(names(t, both)) /\ names(t, both).tmp = {} /\ names(t, both).name = t
    BY <1>1, <2>1 DEF QueuedirState
  <2>4. Same(named(t)) /\ named(t).tmp = {} /\ named(t).name = t
    BY <1>1, <2>1, <2>2 DEF QueuedirState, Output
  <2>5. opened(t) = file(t)
    BY <1>1 DEF QueuedirState
  <2>6. /\ Same(file(t)) /\ file(t).tmp = {t} /\ file(t).name = t
        /\ file(t).tlen /\ file(t).dlen
        /\ file(t).out = [st |-> "open", data |-> <<>>]
    BY <1>1, <2>1, <2>2 DEF QueuedirState, Output
  <2> HIDE DEF names, named, opened, file, Same
  <2> QED BY <2>1, <2>3, <2>4, <2>5, <2>6
<1>5. CASE o = Returns(b, "temp")
  BY <1>5 DEF Returns
<1>6. ASSUME NEW t \in FreeNames(b), NEW both \in BOOLEAN, o = Returns(names(t, both), "temp")
      PROVE  Directory(o.be) /\ Live(o.be) /\ Same(o.be) /\ o.resp = "temp"
  <2> DEFINE c == names(t, both)
  <2>1. Same(c) /\ c.tmp = {} /\ c.name = t /\ \A f \in b.new : f.name # t
    <3> HIDE DEF names, named, opened, file, Same
    <3> QED BY <1>4
  <2>2. o.be = c /\ o.resp = "temp"
    BY <1>6 DEF Returns
  <2> HIDE DEF c, Same
  <2> QED BY <1>2, <2>1, <2>2
<1>7. ASSUME NEW t \in FreeNames(b), o = Returns(named(t), "temp")
      PROVE  Directory(o.be) /\ Live(o.be) /\ Same(o.be) /\ o.resp = "temp"
  <2> DEFINE c == named(t)
  <2>1. Same(c) /\ c.tmp = {} /\ c.name = t /\ \A f \in b.new : f.name # t
    BY <1>4
  <2>2. o.be = c /\ o.resp = "temp"
    BY <1>7 DEF Returns
  <2> HIDE DEF c, Same
  <2> QED BY <1>2, <2>1, <2>2
<1>8. ASSUME NEW t \in FreeNames(b), NEW p \in Puts(file(t), <<From(a)>>), o = written(p)
      PROVE  /\ Directory(o.be) /\ Live(o.be) /\ Same(o.be)
             /\ \/ o.resp = "temp"
                \/ /\ o.resp = "none" /\ o.be.tlen /\ o.be.dlen
                   /\ o.be.out.data = <<From(a)>>
  <2> DEFINE c == file(t)
  <2>1. /\ Same(c) /\ c.tmp = {t} /\ c.name = t /\ c.tlen /\ c.dlen
        /\ c.out = [st |-> "open", data |-> <<>>]
        /\ \A f \in b.new : f.name # t
    BY <1>4
  <2> HIDE DEF c
  <2>2. /\ Leaves(c, p.be) /\ p.be.n = c.n /\ p.be.phase = c.phase /\ p.be.blocks = c.blocks
        /\ \/ p.resp = "none" /\ p.be.out.data = <<>> \o <<From(a)>>
           \/ p.resp = "temp"
    <3>1. c \in QueuedirState /\ p \in Puts(c, <<From(a)>>)
      BY <1>8, <2>1 DEF c
    <3>2. c.out.data = <<>>
      BY <2>1
    <3>3. /\ Leaves(c, p.be) /\ p.be.n = c.n /\ p.be.phase = c.phase /\ p.be.blocks = c.blocks
          /\ \/ p.resp = "none" /\ p.be.out.data = c.out.data \o <<From(a)>>
             \/ p.resp = "temp"
      BY ONLY <1>3, <3>1, PutsOutcome
    <3> QED BY ONLY <3>2, <3>3
  <2>3. Same(p.be) /\ p.be.tmp = {t} /\ p.be.name = t /\ p.be.tlen /\ p.be.dlen
    BY <2>1, <2>2 DEF Leaves
  <2>4. CASE p.resp = "none"
    <3>1. o = p
      BY <1>8, <2>4 DEF response_ok
    <3>2. <<>> \o <<From(a)>> = <<From(a)>>
      OBVIOUS
    <3> HIDE DEF Same
    <3> QED BY <1>2, <2>1, <2>2, <2>3, <2>4, <3>1, <3>2
  <2>5. CASE p.resp = "temp"
    <3> DEFINE r == queuedir_reset(p.be)
    <3>1. o.be = r /\ o.resp = "temp"
      BY <1>8, <2>5 DEF response_ok, Returns
    <3>2. /\ r \in QueuedirState /\ ~ r.tlen /\ ~ r.dlen /\ r.phase = "idle" /\ r.tmp = {}
          /\ r.new = {f \in b.new : f.name # t}
          /\ r.taken = b.taken /\ r.n = b.n /\ r.sync = b.sync /\ r.fate = b.fate
          /\ r.blocks = b.blocks
      BY <2>3, ResetOutcome
    <3> HIDE DEF r
    <3>3. Same(r)
      BY <2>1, <3>2
    <3> HIDE DEF Same
    <3> QED BY <1>2, <3>1, <3>2, <3>3
  <2> QED BY <2>2, <2>4, <2>5
<1>9. \/ o = Returns(b, "temp")
      \/ \E t \in FreeNames(b) :
           \/ \E both \in BOOLEAN : o = Returns(names(t, both), "temp")
           \/ o = Returns(named(t), "temp")
           \/ \E p \in Puts(opened(t), <<From(a)>>) : o = written(p)
  <2> DEFINE Nameless(t) == UNION {MayFail("names", names(t, both), "temp") : both \in BOOLEAN}
             Uncreated(t) == MayFail("create", named(t), "temp")
             Created(t) == {written(p) : p \in Puts(opened(t), <<From(a)>>)}
  <2>1. o \in MayFail("config", b, "temp")
             \cup UNION {Nameless(t) \cup Uncreated(t) \cup Created(t) : t \in FreeNames(b)}
    <3>1. queuedir_sender(b, a) =
            MayFail("config", b, "temp")
              \cup UNION {Nameless(t) \cup Uncreated(t) \cup Created(t) : t \in FreeNames(b)}
      BY DEF queuedir_sender
    <3> HIDE DEF Nameless, Uncreated, Created
    <3> QED BY <3>1
  <2>2. ASSUME NEW t, o \in Nameless(t)
        PROVE  \E both \in BOOLEAN : o = Returns(names(t, both), "temp")
    BY <2>2 DEF MayFail
  <2>3. ASSUME NEW t, o \in Uncreated(t)
        PROVE  o = Returns(named(t), "temp")
    BY <2>3 DEF MayFail
  <2>4. ASSUME NEW t, o \in Created(t)
        PROVE  \E p \in Puts(opened(t), <<From(a)>>) : o = written(p)
    BY <2>4
  <2>5. o \in MayFail("config", b, "temp") => o = Returns(b, "temp")
    BY DEF MayFail
  <2> HIDE DEF Nameless, Uncreated, Created, names, named, opened, written
  <2>6. CASE o \in MayFail("config", b, "temp")
    BY <2>5, <2>6
  <2>7. ASSUME NEW t \in FreeNames(b), o \in Nameless(t) \cup Uncreated(t) \cup Created(t)
        PROVE  \/ \E both \in BOOLEAN : o = Returns(names(t, both), "temp")
               \/ o = Returns(named(t), "temp")
               \/ \E p \in Puts(opened(t), <<From(a)>>) : o = written(p)
    BY <2>2, <2>3, <2>4, <2>7
  <2> QED BY <2>1, <2>6, <2>7
<1> QED
  <2> HIDE DEF names, named, opened, written, file
  <2> QED BY <1>4, <1>5, <1>6, <1>7, <1>8, <1>9


-----------------------------------------------------------------------------
(* The files and the client's history                                      *)

\* now is the message that is linked and not answered, if there is one.
Current(b, mail, now) ==
  IF Linking(b) THEN now = b.n /\ mail[now].verdict = "open" ELSE now = 0

\* Files are of messages.
LEMMA FilesAreOfMessages ==
  ASSUME NEW b \in QueuedirState
  PROVE  /\ \A f \in Stored(b) : f \in File /\ f.of \in Message /\ f.of # 0
         /\ b.new \subseteq File /\ b.taken \subseteq File /\ b.n \in 0 .. MaxMessages
         /\ b.tmp \subseteq Clock
  BY QueuedirAssumption DEF QueuedirState, Stored, File, Message

\* What does not touch the files changes nothing about them.
LEMMA FilesStay ==
  ASSUME NEW b, NEW c, NEW mail, NEW W, NEW now, Files(b, mail, W, now),
         c.new = b.new, c.taken = b.taken, c.sync = b.sync, c.fate = b.fate,
         c.name = b.name \/ (b \in QueuedirState /\ now = 0)
  PROVE  Files(c, mail, W, now)
<1>1. Stored(c) = Stored(b) /\ (Promised(c) <=> Promised(b))
      /\ \A k : Lasting(b, k) => Lasting(c, k)
  BY DEF Stored, Promised, Lasting
<1>2. CASE c.name = b.name
  BY <1>1, <1>2 DEF Files
<1>3. CASE b \in QueuedirState /\ now = 0
  <2>1. \A f \in b.new : f.of # now
    BY <1>3, FilesAreOfMessages DEF Stored
  <2> QED BY <1>1, <2>1 DEF Files
<1> QED BY <1>2, <1>3

\* A message that is not answered, of which nothing is stored, may go on.
LEMMA FilesElsewhere ==
  ASSUME NEW b \in QueuedirState, NEW mail, NEW W, Files(b, mail, W, 0),
         NEW n \in Message, mail[n].verdict \notin {"ack", "nak", "unknown"},
         NEW mail2, NEW W2, mail2[n].verdict # "ack",
         \A k \in Message : k # n => mail2[k].verdict = mail[k].verdict /\ W2[k] = W[k]
  PROVE  Files(b, mail2, W2, 0)
<1>1. \A f \in Stored(b) : f.of \in Message /\ f.of # 0
  BY FilesAreOfMessages
<1>2. \A f \in Stored(b) : f.of # n
  BY <1>1 DEF Files
<1>3. b.new \subseteq Stored(b)
  BY DEF Stored
<1> QED BY <1>1, <1>2, <1>3 DEF Files

\* A message is answered, or the session ends after it.
LEMMA FilesSettle ==
  ASSUME NEW b \in QueuedirState, NEW mail, NEW W, NEW now, Files(b, mail, W, now),
         NEW n \in Message, now \in {0, n}, NEW v \in {"ack", "nak", "unknown"},
         v = "ack" => Lasting(b, n),
         v = "nak" => \A f \in b.new : f.of # n,
         NEW mail2, mail2[n].verdict = v,
         \A k \in Message : k # n => mail2[k].verdict = mail[k].verdict
  PROVE  Files(b, mail2, W, 0)
<1>1. \A f \in Stored(b) : f.of \in Message /\ f.of # 0
  BY FilesAreOfMessages
<1>2. b.new \subseteq Stored(b)
  BY DEF Stored
<1> QED BY <1>1, <1>2 DEF Files

(***************************************************************************)
(* A reset in the middle of a message removes its file from new/, and      *)
(* leaves those that the client was told of.                               *)
(***************************************************************************)
LEMMA ResetWorks ==
  ASSUME NEW b, Directory(b), Live(b), NEW mail, NEW W, NEW now,
         Files(b, mail, W, now), Current(b, mail, now)
  PROVE  LET c == queuedir_reset(b)
         IN  Clear(c, mail, W, now) /\ c.n = b.n
<1> DEFINE c == queuedir_reset(b)
<1>1. b \in QueuedirState
  BY DEF Directory
<1>2. /\ c \in QueuedirState
      /\ ~ c.tlen /\ ~ c.dlen /\ c.phase = "idle"
      /\ c.tmp = IF b.tlen THEN b.tmp \ {b.name} ELSE b.tmp
      /\ c.new = IF b.dlen THEN {f \in b.new : f.name # b.name} ELSE b.new
      /\ c.taken = b.taken /\ c.n = b.n /\ c.sync = b.sync /\ c.fate = b.fate
  BY <1>1, ResetOutcome
<1> HIDE DEF c
<1>3. c.tmp = {} /\ b.fate = "up"
  BY <1>2 DEF Live
<1>4. Directory(c) /\ Live(c)
  BY <1>2, <1>3 DEF Directory, Live, Linking
<1>5. \A f \in Stored(b) : f.of \in Message /\ f.of # 0
  BY <1>1, FilesAreOfMessages
<1>6. \A f \in b.new : f \notin c.new => f.of = now /\ mail[now].verdict # "ack"
  BY <1>2 DEF Live, Current
<1>7. \A f \in c.new : f \in b.new /\ (mail[f.of].verdict \in {"ack", "unknown"}) /\ f.of # now
  <2>1. \A f \in c.new : f \in b.new /\ f \in Stored(b) /\ (b.dlen => f.name # b.name)
    BY <1>2 DEF Stored
  <2>2. CASE Linking(b)
    <3>1. b.dlen /\ mail[now].verdict = "open"
      BY <2>2 DEF Live, Current
    <3> QED BY <1>3, <2>1, <3>1 DEF Files
  <2>3. CASE ~ Linking(b)
    <3>1. now = 0
      BY <2>3 DEF Current
    <3> QED BY <1>3, <1>5, <2>1, <3>1 DEF Files
  <2> QED BY <2>2, <2>3
<1>8. ASSUME NEW k \in Message, mail[k].verdict = "ack", Lasting(b, k)
      PROVE  Lasting(c, k)
  BY <1>2, <1>6, <1>8 DEF Lasting
<1>9. Files(c, mail, W, now)
  <2>1. Stored(c) \subseteq Stored(b) /\ (Promised(c) <=> Promised(b))
    BY <1>2, <1>7 DEF Stored, Promised
  <2> QED BY <1>7, <1>8, <2>1 DEF Files
<1> QED BY <1>2, <1>3, <1>4, <1>7, <1>9 DEF c, Clear

-----------------------------------------------------------------------------
(* message_end, step by step                                               *)

\* The file is synced and closed as it is, or the message is reset.
LEMMA SyncOutcome ==
  ASSUME NEW b \in QueuedirState, NEW o \in SyncAndClose(b)
  PROVE  \/ /\ o.resp = "busy" /\ Leaves(b, o.be) /\ o.be.n = b.n /\ o.be.phase = "link"
            /\ b.out.st = "open" /\ o.be.out.data = b.out.data
         \/ /\ o.resp = "temp"
            /\ \E c : /\ Leaves(b, c) /\ c.n = b.n /\ c.phase = b.phase
                      /\ o.be = queuedir_reset(c)
<1>1. b.out \in Output
  BY DEF QueuedirState, Output
<1>2. CASE b.out.st # "open" /\ o = Returns(queuedir_reset(b), "temp")
  <2>1. Leaves(b, b)
    BY DEF Leaves
  <2> QED BY <1>2, <2>1 DEF Returns
<1>3. CASE b.out.st = "open" /\ o = Step([b EXCEPT !.out.st = "closed"], "link")
  <2> DEFINE out == [b.out EXCEPT !.st = "closed"]
             c == [b EXCEPT !.out = out]
             d == [c EXCEPT !.phase = "link"]
  <2>1. out \in Output /\ out.data = b.out.data
    BY <1>1 DEF Output
  <2>2. o.be = d /\ o.resp = "busy"
    BY <1>3 DEF Step, Returns
  <2> HIDE DEF out
  <2>3. Leaves(b, c) /\ c.out = out /\ c.n = b.n /\ c \in QueuedirState
    BY <2>1, LeavesOutput DEF Leaves
  <2> HIDE DEF c
  <2>4. Leaves(c, d) /\ d.out = c.out /\ d.n = c.n /\ d.phase = "link"
    BY <2>3, LeavesPhase
  <2> HIDE DEF d
  <2>5. Leaves(b, d)
    BY <2>3, <2>4, LeavesTransitive
  <2> QED BY <1>3, <2>1, <2>2, <2>3, <2>4, <2>5
<1>4. CASE o = Returns(queuedir_reset([b EXCEPT !.out.st = "bad"]), "temp")
  <2> DEFINE out == [b.out EXCEPT !.st = "bad"]
             c == [b EXCEPT !.out = out]
  <2>1. out \in Output
    BY <1>1 DEF Output
  <2>2. o.be = queuedir_reset(c) /\ o.resp = "temp"
    BY <1>4 DEF Returns
  <2> HIDE DEF out
  <2>3. Leaves(b, c) /\ c.n = b.n /\ c.phase = b.phase
    BY <2>1, LeavesOutput
  <2> HIDE DEF c
  <2> QED BY <2>2, <2>3
<1> QED BY <1>2, <1>3, <1>4 DEF SyncAndClose, MayFail

(***************************************************************************)
(* The file is linked into new/, whole, if it is there to be linked; what  *)
(* is in new/ under its name can be nobody else's.                         *)
(***************************************************************************)
LEMMA LinkOutcome ==
  ASSUME NEW b, Directory(b), Live(b), b.phase = "link", b.n \in Message,
         NEW mail, NEW W, Files(b, mail, W, 0), mail[b.n].verdict = "open",
         b.tlen = b.dlen, b.dlen => b.out.data \in W[b.n],
         NEW o \in Link(b)
  PROVE  \/ /\ o.resp = "busy" /\ Directory(o.be) /\ Live(o.be) /\ o.be.n = b.n
            /\ Linking(o.be) /\ Files(o.be, mail, W, b.n)
            /\ o.be.phase = "dirsync" => o.be.sync /\ \E f \in Stored(o.be) : f.of = b.n
            /\ o.be.phase = "unlink" => Lasting(o.be, b.n)
         \/ o.resp = "temp" /\ o.be = queuedir_reset(b)
<1> DEFINE g == [name |-> b.name, of |-> b.n, data |-> b.out.data, safe |-> b.sync, entry |-> FALSE]
           next == IF b.sync THEN "dirsync" ELSE "unlink"
           c == [b EXCEPT !.new = b.new \cup {g}]
           d == [c EXCEPT !.phase = next]
<1>1. b \in QueuedirState /\ b.fate = "up"
  BY DEF Directory, Live
<1>2. CASE o = Returns(queuedir_reset(b), "temp")
  BY <1>2 DEF Returns
<1>3. CASE /\ b.name \in b.tmp /\ b.name \notin {f.name : f \in b.new}
           /\ o = Step(c, next)
  <2>1. b.tlen /\ b.dlen /\ b.name \in Clock /\ \A f \in b.new : f.name # b.name
    BY <1>1, <1>3, FilesAreOfMessages DEF Live
  <2>2. g \in File /\ g.name = b.name /\ g.of = b.n /\ g.data = b.out.data /\ g.safe = b.sync
    <3>1. b.out.data \in Seq(Item) /\ b.sync \in BOOLEAN
      BY <1>1 DEF QueuedirState
    <3> QED BY <2>1, <3>1 DEF File
  <2>3. o.be = d /\ o.resp = "busy"
    BY <1>3 DEF Step, Returns
  <2> HIDE DEF g
  <2>4. /\ d \in QueuedirState /\ d.new = b.new \cup {g} /\ d.taken = b.taken /\ d.n = b.n
        /\ d.tmp = b.tmp /\ d.name = b.name /\ d.tlen = b.tlen /\ d.dlen = b.dlen
        /\ d.sync = b.sync /\ d.fate = b.fate /\ d.phase = next
    BY <1>1, <2>2 DEF QueuedirState
  <2> HIDE DEF d, c
  <2>5. next \in {"dirsync", "unlink"} /\ Linking(d)
    BY <2>4 DEF Linking
  <2>6. Directory(d)
    BY <2>1, <2>2, <2>4 DEF Directory
  <2>7. Live(d)
    BY <1>1, <2>1, <2>2, <2>4, <2>5 DEF Live
  <2>8. Files(d, mail, W, b.n)
    <3>1. Stored(d) = Stored(b) \cup {g} /\ (Promised(d) <=> Promised(b))
          /\ \A k : Lasting(b, k) => Lasting(d, k)
      BY <2>4 DEF Stored, Promised, Lasting
    <3>2. \A f \in Stored(b) : f.of # 0
      BY <1>1, FilesAreOfMessages
    <3>3. b.new \subseteq Stored(b)
      BY DEF Stored
    <3> QED BY <1>1, <2>1, <2>2, <2>4, <3>1, <3>2, <3>3 DEF Files
  <2>9. g \in Stored(d) /\ (d.phase = "dirsync" => d.sync) /\ (d.phase = "unlink" => ~ d.sync)
    BY <1>1, <2>4 DEF Stored, QueuedirState
  <2>10. d.phase = "unlink" => Lasting(d, b.n)
    BY <2>2, <2>4, <2>9 DEF Lasting
  <2> QED BY <2>2, <2>3, <2>4, <2>5, <2>6, <2>7, <2>8, <2>9, <2>10
<1> QED BY <1>2, <1>3 DEF Link, Linked, MayFail

\* The entries of new/ are synced, the file's own among them if it is still there.
LEMMA DirsyncOutcome ==
  ASSUME NEW b, Directory(b), Live(b), b.phase = "dirsync",
         NEW mail, NEW W, Files(b, mail, W, b.n), \E f \in Stored(b) : f.of = b.n,
         NEW o \in SyncDirectory(b)
  PROVE  \/ /\ o.resp = "busy" /\ Directory(o.be) /\ Live(o.be) /\ o.be.n = b.n
            /\ o.be.phase = "unlink" /\ Files(o.be, mail, W, b.n) /\ Lasting(o.be, b.n)
         \/ o.resp = "temp" /\ o.be = queuedir_reset(b)
<1> DEFINE synced(f) == [f EXCEPT !.entry = TRUE]
           new == {synced(f) : f \in b.new}
           c == [b EXCEPT !.new = new]
           d == [c EXCEPT !.phase = "unlink"]
<1>1. b \in QueuedirState /\ b.fate = "up"
  BY DEF Directory, Live
<1>2. CASE o = Returns(queuedir_reset(b), "temp")
  BY <1>2 DEF Returns
<1>3. CASE o = Step(c, "unlink")
  <2>1. o.be = d /\ o.resp = "busy"
    BY <1>3 DEF Step, Returns
  <2>2. \A f \in b.new : /\ synced(f) \in File /\ synced(f).name = f.name /\ synced(f).of = f.of
                         /\ synced(f).data = f.data /\ synced(f).safe = f.safe
                         /\ synced(f).entry
    <3>1. \A f \in b.new : f \in File
      BY <1>1, FilesAreOfMessages
    <3> QED BY <3>1 DEF File
  <2> HIDE DEF synced
  <2>3. new \subseteq File
    BY <2>2
  <2>4. \A g \in new : \E f \in b.new : g = synced(f)
    OBVIOUS
  <2>5. \A f \in b.new : synced(f) \in new
    OBVIOUS
  <2> HIDE DEF new
  <2>6. /\ d \in QueuedirState /\ d.new = new /\ d.taken = b.taken /\ d.n = b.n
        /\ d.tmp = b.tmp /\ d.name = b.name /\ d.tlen = b.tlen /\ d.dlen = b.dlen
        /\ d.sync = b.sync /\ d.fate = b.fate /\ d.phase = "unlink"
    BY <1>1, <2>3 DEF QueuedirState
  <2> HIDE DEF d, c
  <2>7. \A g \in new : \E f \in b.new : /\ g.name = f.name /\ g.of = f.of /\ g.data = f.data
                                        /\ g.safe = f.safe
    BY <2>2, <2>4
  <2>8. \A g, h \in new : g.name = h.name => g = h
    BY <1>1, <2>2, <2>4 DEF Directory
  <2>9. Directory(d)
    BY <1>1, <2>6, <2>7, <2>8 DEF Directory
  <2>10. Live(d)
    <3>1. Linking(d) /\ Linking(b)
      BY <2>6 DEF Linking
    <3> QED BY <1>1, <2>6, <2>7, <3>1 DEF Live
  <2>11. \A g \in Stored(d) : \E f \in Stored(b) : g.of = f.of /\ g.data = f.data
    BY <2>6, <2>7 DEF Stored
  <2>12. \A k : (\E f \in Stored(b) : f.of = k) => Lasting(d, k)
    BY <2>2, <2>5, <2>6 DEF Stored, Lasting
  <2>13. \A k : Lasting(b, k) => \E f \in Stored(b) : f.of = k
    BY DEF Lasting, Stored
  <2>14. Files(d, mail, W, b.n)
    <3>1. Promised(d) <=> Promised(b)
      BY <2>6 DEF Promised
    <3> QED BY <1>1, <2>6, <2>7, <2>11, <2>12, <2>13, <3>1 DEF Files
  <2> QED BY <2>1, <2>6, <2>9, <2>10, <2>12, <2>14
<1> QED BY <1>2, <1>3 DEF SyncDirectory, MayFail

\* The first name goes, and the names are forgotten: the file is out of reach.
LEMMA UnlinkOutcome ==
  ASSUME NEW b, Directory(b), Live(b), b.phase = "unlink",
         NEW mail, NEW W, Files(b, mail, W, b.n), Lasting(b, b.n),
         NEW o \in Unlink(b)
  PROVE  /\ o.resp = "none" /\ Directory(o.be) /\ Live(o.be) /\ o.be.n = b.n
         /\ ~ o.be.tlen /\ ~ o.be.dlen /\ o.be.phase = "idle" /\ o.be.tmp = {}
         /\ Files(o.be, mail, W, b.n) /\ Lasting(o.be, b.n)
<1> DEFINE c == [b EXCEPT !.tmp = b.tmp \ {b.name}, !.tlen = FALSE, !.dlen = FALSE,
                          !.phase = "idle"]
<1>1. b \in QueuedirState /\ b.fate = "up"
  BY DEF Directory, Live
<1>2. o.be = c /\ o.resp = "none"
  BY DEF Unlink, Returns
<1>3. /\ c \in QueuedirState /\ c.new = b.new /\ c.taken = b.taken /\ c.n = b.n
      /\ c.tmp = b.tmp \ {b.name} /\ c.name = b.name /\ ~ c.tlen /\ ~ c.dlen
      /\ c.sync = b.sync /\ c.fate = b.fate /\ c.phase = "idle"
  BY <1>1 DEF QueuedirState
<1> HIDE DEF c
<1>4. c.tmp = {}
  BY <1>3 DEF Live
<1>5. Directory(c) /\ Live(c)
  BY <1>1, <1>3, <1>4 DEF Directory, Live, Linking
<1>6. Files(c, mail, W, b.n)
  BY <1>3, FilesStay
<1>7. Lasting(c, b.n)
  BY <1>3 DEF Lasting
<1> QED BY <1>2, <1>3, <1>4, <1>5, <1>6, <1>7


\* A second reset does nothing.
LEMMA ResetAgain ==
  ASSUME NEW b \in QueuedirState, ~ b.tlen, ~ b.dlen, b.phase = "idle"
  PROVE  queuedir_reset(b) = b
  BY DEF queuedir_reset, QueuedirState

(***************************************************************************)
(* A step of message_end goes on, keeping it safe, or accepts the message, *)
(* which is stored for good, or refuses it and leaves nothing of it.       *)
(***************************************************************************)
LEMMA GoesOnOutcome ==
  ASSUME NEW b, Directory(b), Live(b), b.phase # "idle", b.n \in Message,
         NEW mail, NEW W, mail[b.n].verdict = "open", EndIsSafe(b, W),
         NEW now, Current(b, mail, now), Files(b, mail, W, now),
         NEW o \in queuedir_message_end_goes_on(b)
  PROVE  /\ o.be.n = b.n /\ Directory(o.be) /\ Live(o.be)
         /\ \/ /\ o.resp = "busy" /\ o.be.phase # "idle" /\ EndIsSafe(o.be, W)
               /\ Files(o.be, mail, W, IF Linking(o.be) THEN b.n ELSE 0)
            \/ /\ o.resp = "none" /\ ~ o.be.tlen /\ ~ o.be.dlen /\ o.be.phase = "idle"
               /\ o.be.tmp = {} /\ Files(o.be, mail, W, b.n) /\ Lasting(o.be, b.n)
            \/ o.resp = "temp" /\ Clear(o.be, mail, W, now)
<1>1. b \in QueuedirState /\ b.phase \in {"idle", "sync", "link", "dirsync", "unlink"}
  BY DEF Directory, QueuedirState
<1>2. ASSUME o.be = queuedir_reset(b), o.resp = "temp"
      PROVE  /\ o.be.n = b.n /\ Directory(o.be) /\ Live(o.be)
             /\ Clear(o.be, mail, W, now)
  <2>1. LET c == queuedir_reset(b) IN Clear(c, mail, W, now) /\ c.n = b.n
    BY ResetWorks
  <2> QED BY <1>2, <2>1 DEF Clear
<1>3. CASE b.phase = "sync"
  <2>1. now = 0 /\ ~ Linking(b)
    BY <1>3 DEF Current, Linking
  <2>2. o \in SyncAndClose(b)
    BY <1>3 DEF queuedir_message_end_goes_on
  <2>3. CASE /\ o.resp = "busy" /\ Leaves(b, o.be) /\ o.be.n = b.n /\ o.be.phase = "link"
             /\ b.out.st = "open" /\ o.be.out.data = b.out.data
    <3>1. ~ Linking(o.be)
      BY <2>3 DEF Linking
    <3>2. Directory(o.be) /\ Live(o.be)
      BY <2>1, <2>3, <3>1, LeavesKeeps
    <3>3. Files(o.be, mail, W, 0)
      BY <2>1, <2>3, FilesStay DEF Leaves
    <3>4. EndIsSafe(o.be, W)
      BY <1>3, <2>3 DEF EndIsSafe, Writes, Leaves
    <3> QED BY <2>3, <3>1, <3>2, <3>3, <3>4
  <2>4. ASSUME o.resp = "temp", NEW c, Leaves(b, c), c.n = b.n, c.phase = b.phase,
               o.be = queuedir_reset(c)
        PROVE  /\ o.be.n = b.n /\ Directory(o.be) /\ Live(o.be)
               /\ Clear(o.be, mail, W, now)
    <3>1. ~ Linking(c)
      BY <1>3, <2>4 DEF Linking
    <3>2. Directory(c) /\ Live(c)
      BY <2>1, <2>4, <3>1, LeavesKeeps
    <3>3. Files(c, mail, W, now) /\ Current(c, mail, now)
      BY <2>1, <2>4, <3>1, FilesStay DEF Leaves, Current
    <3>4. LET d == queuedir_reset(c) IN Clear(d, mail, W, now) /\ d.n = c.n
      BY <3>2, <3>3, ResetWorks
    <3> QED BY <2>4, <3>4 DEF Clear
  <2> QED BY <1>1, <2>2, <2>3, <2>4, SyncOutcome
<1>4. CASE b.phase = "link"
  <2>1. now = 0
    BY <1>4 DEF Current, Linking
  <2>2. o \in Link(b)
    BY <1>4 DEF queuedir_message_end_goes_on
  <2>3. b.tlen = b.dlen /\ (b.dlen => b.out.data \in W[b.n])
    BY <1>4 DEF EndIsSafe, Writes
  <2>4. \/ /\ o.resp = "busy" /\ Directory(o.be) /\ Live(o.be) /\ o.be.n = b.n
           /\ Linking(o.be) /\ Files(o.be, mail, W, b.n)
           /\ o.be.phase = "dirsync" => o.be.sync /\ \E f \in Stored(o.be) : f.of = b.n
           /\ o.be.phase = "unlink" => Lasting(o.be, b.n)
        \/ o.resp = "temp" /\ o.be = queuedir_reset(b)
    BY <1>4, <2>1, <2>2, <2>3, LinkOutcome
  <2> QED BY <1>2, <2>4 DEF EndIsSafe, Linking
<1>5. CASE b.phase = "dirsync"
  <2>1. Files(b, mail, W, b.n) /\ \E f \in Stored(b) : f.of = b.n
    BY <1>5 DEF Current, Linking, EndIsSafe
  <2>2. o \in SyncDirectory(b)
    BY <1>5 DEF queuedir_message_end_goes_on
  <2>3. \/ /\ o.resp = "busy" /\ Directory(o.be) /\ Live(o.be) /\ o.be.n = b.n
           /\ o.be.phase = "unlink" /\ Files(o.be, mail, W, b.n) /\ Lasting(o.be, b.n)
        \/ o.resp = "temp" /\ o.be = queuedir_reset(b)
    BY <1>5, <2>1, <2>2, DirsyncOutcome
  <2> QED BY <1>2, <2>3 DEF EndIsSafe, Linking
<1>6. CASE b.phase = "unlink"
  <2>1. Files(b, mail, W, b.n) /\ Lasting(b, b.n)
    BY <1>6 DEF Current, Linking, EndIsSafe
  <2>2. o \in Unlink(b)
    BY <1>6 DEF queuedir_message_end_goes_on
  <2> QED BY <1>6, <2>1, <2>2, UnlinkOutcome
<1> QED BY <1>1, <1>3, <1>4, <1>5, <1>6

-----------------------------------------------------------------------------
(* The world outside                                                       *)

\* A file is taken out of new/: what is stored is stored still.
LEMMA TakesOutcome ==
  ASSUME NEW b, Directory(b), b.fate # "down", NEW mail, NEW W, NEW now, Files(b, mail, W, now),
         NEW c \in Takes(b)
  PROVE  /\ Directory(c) /\ (Live(b) => Live(c)) /\ Files(c, mail, W, now)
         /\ Stored(c) = Stored(b)
         /\ \A k : Lasting(b, k) => Lasting(c, k)
         /\ c.name = b.name /\ c.tlen = b.tlen /\ c.dlen = b.dlen /\ c.out = b.out
         /\ c.tmpfd = b.tmpfd /\ c.n = b.n /\ c.phase = b.phase /\ c.sync = b.sync
         /\ c.tmp = b.tmp /\ c.fate = b.fate /\ c.blocks = b.blocks
<1>1. b \in QueuedirState
  BY DEF Directory
<1>2. PICK f \in b.new : c = [b EXCEPT !.new = b.new \ {f}, !.taken = b.taken \cup {f}]
  BY DEF Takes
<1>3. f \in File
  BY <1>1, FilesAreOfMessages
<1>4. /\ c \in QueuedirState /\ c.new = b.new \ {f} /\ c.taken = b.taken \cup {f}
      /\ c.name = b.name /\ c.tlen = b.tlen /\ c.dlen = b.dlen /\ c.out = b.out
      /\ c.tmpfd = b.tmpfd /\ c.n = b.n /\ c.phase = b.phase /\ c.sync = b.sync
      /\ c.tmp = b.tmp /\ c.fate = b.fate /\ c.blocks = b.blocks
  BY <1>1, <1>2, <1>3 DEF QueuedirState
<1>5. Directory(c) /\ (Live(b) => Live(c))
  BY <1>4 DEF Directory, Live, Linking
<1>6. Stored(c) = Stored(b)
  BY <1>4 DEF Stored
<1>7. \A k : Lasting(b, k) => Lasting(c, k)
  BY <1>4 DEF Lasting
<1>8. Files(c, mail, W, now)
  BY <1>4, <1>6, <1>7 DEF Files, Promised
<1> QED BY <1>4, <1>5, <1>6, <1>7, <1>8

\* What a power failure leaves of a file is the whole of it if it was synced.
LEMMA SurvivorsOutcome ==
  ASSUME NEW f \in File, NEW g \in Survivors(f)
  PROVE  g \in File /\ g.name = f.name /\ g.of = f.of /\ (f.safe => g = f)
<1>1. CASE f.safe
  BY <1>1 DEF Survivors
<1>2. CASE ~ f.safe
  <2>1. PICK i \in 0 .. Len(f.data) : g = [f EXCEPT !.data = SubSeq(f.data, 1, i)]
    BY <1>2 DEF Survivors
  <2>2. f.data \in Seq(Item)
    BY DEF File
  <2>3. SubSeq(f.data, 1, i) \in Seq(Item)
    <3>1. i \in Int /\ 1 \in Int /\ \A j \in 1 .. i : f.data[j] \in Item
      BY <2>2
    <3> QED BY <2>2, <3>1, SubSeqProperties
  <2> QED BY <1>2, <2>1, <2>3 DEF File
<1> QED BY <1>1, <1>2

(***************************************************************************)
(* A power failure loses no synced entry and cuts no synced file, and so   *)
(* nothing that the client was told of when everything is synced.          *)
(***************************************************************************)
LEMMA PowerFailsOutcome ==
  ASSUME NEW b, Directory(b), b.fate # "down", NEW mail, NEW W, NEW now, Files(b, mail, W, now),
         NEW c \in PowerFails(b)
  PROVE  /\ Directory(c) /\ Files(c, mail, W, now) /\ c.fate = "down"
         /\ c.n = b.n /\ c.phase = b.phase
         /\ \A f \in Stored(c) : \E g \in Stored(b) : g.of = f.of
<1> DEFINE left == c.new
           all  == UNION {Survivors(f) : f \in b.new}
<1>1. b \in QueuedirState /\ b.new \subseteq File
  BY FilesAreOfMessages DEF Directory
<1>2. /\ c = [b EXCEPT !.fate = "down", !.new = left] /\ left \subseteq all
      /\ \A f \in b.new :
           Cardinality({g \in left : g.name = f.name}) \in (IF f.entry THEN {1} ELSE {0, 1})
  <2>1. PICK s \in SUBSET all :
          /\ c = [b EXCEPT !.fate = "down", !.new = s]
          /\ \A f \in b.new :
               Cardinality({g \in s : g.name = f.name}) \in (IF f.entry THEN {1} ELSE {0, 1})
    BY DEF PowerFails
  <2>2. c.new = s
    BY <1>1, <2>1 DEF QueuedirState
  <2> QED BY <2>1, <2>2
<1>3. \A g \in left : \E f \in b.new : f \in File /\ g \in Survivors(f)
  BY <1>1, <1>2
<1> HIDE DEF left, all
<1>4. \A g \in left : \E f \in b.new : /\ g \in File /\ g.name = f.name /\ g.of = f.of
                                       /\ f.safe => g = f
  BY <1>3, SurvivorsOutcome
<1>5. /\ c \in QueuedirState /\ c.new = left /\ c.taken = b.taken /\ c.n = b.n
      /\ c.phase = b.phase /\ c.sync = b.sync /\ c.fate = "down" /\ c.name = b.name
  <2>1. left \subseteq File
    BY <1>4
  <2> QED BY <1>1, <1>2, <2>1 DEF QueuedirState
<1>6. Directory(c)
  BY <1>5 DEF Directory
<1>7. \A f \in Stored(c) : \E g \in Stored(b) : g.of = f.of
  BY <1>4, <1>5 DEF Stored
<1>8. ASSUME b.sync
      PROVE  left \subseteq b.new /\ \A f \in b.new : f.entry => f \in left
  <2>1. left \subseteq b.new
    BY <1>4, <1>8 DEF Directory
  <2>2. ASSUME NEW f \in b.new, f.entry
        PROVE  f \in left
    <3> DEFINE kept == {g \in left : g.name = f.name}
    <3>1. Cardinality(kept) = 1
      BY <1>2, <2>2
    <3>2. kept # {}
      BY <3>1, FS_EmptySet
    <3>3. PICK g \in left : g.name = f.name
      BY <3>2
    <3> QED BY <2>1, <3>3 DEF Directory
  <2> QED BY <2>1, <2>2
<1>9. Files(c, mail, W, now)
  <2>1. \A f \in Stored(c) : mail[f.of].verdict \in {"ack", "nak", "unknown"} \/ f.of = now
    BY <1>7 DEF Files
  <2>2. ASSUME b.sync
        PROVE  /\ \A f \in Stored(c) : f.data \in W[f.of]
               /\ \A k \in Message : mail[k].verdict = "ack" => Lasting(c, k)
    <3>1. Promised(b) /\ Stored(c) \subseteq Stored(b)
      BY <1>5, <1>8, <2>2 DEF Promised, Stored
    <3>2. \A k : Lasting(b, k) => Lasting(c, k)
      BY <1>5, <1>8, <2>2 DEF Lasting
    <3> QED BY <3>1, <3>2 DEF Files
  <2>3. Promised(c) => b.sync
    BY <1>5 DEF Promised
  <2> QED BY <1>5, <2>1, <2>2, <2>3 DEF Files
<1> QED BY <1>5, <1>6, <1>7, <1>9


-----------------------------------------------------------------------------
(* The format of a file                                                    *)

\* Blocks, one more at the end.
LEMMA BlocksGrow ==
  ASSUME NEW n \in Nat
  PROVE  Blocks(n) \in Seq(Item) /\ Blocks(n + 1) = Blocks(n) \o <<Block>>
<1>1. Blocks(n) \in Seq(Item) /\ Len(Blocks(n)) = n
  BY ItemsAreItems, IsASeq DEF Blocks
<1>2. Blocks(n + 1) = Append(Blocks(n), Block)
  BY <1>1 DEF Blocks
<1> QED BY <1>1, <1>2, AppendIsConcat, ItemsAreItems

\* Senders and recipients as they are in a file.
Senders(s)    == [i \in DOMAIN s |-> From(s[i])]
Recipients(s) == [i \in DOMAIN s |-> To(s[i])]

LEMMA AddressesAreItems ==
  ASSUME NEW s \in Seq(Address)
  PROVE  /\ Senders(s) \in Seq(Item) /\ Recipients(s) \in Seq(Item)
         /\ \A a \in Address : Recipients(Append(s, a)) = Recipients(s) \o <<To(a)>>
<1>1. /\ Senders(s) \in Seq(Item) /\ Recipients(s) \in Seq(Item) /\ Len(Recipients(s)) = Len(s)
  BY ItemsAreItems, IsASeq DEF Senders, Recipients
<1>2. ASSUME NEW a \in Address
      PROVE  Recipients(Append(s, a)) = Recipients(s) \o <<To(a)>>
  <2>1. Recipients(Append(s, a)) = Append(Recipients(s), To(a))
    BY <1>1 DEF Recipients
  <2> QED BY <1>1, <2>1, AppendIsConcat, ItemsAreItems
<1> QED BY <1>1, <1>2

\* An envelope is its sender, and one recipient more at its end for each accepted.
LEMMA EnvelopeGrows ==
  ASSUME NEW o, o.from \in Seq(Address), o.to \in Seq(Address)
  PROVE  /\ Envelope(o) \in Seq(Item)
         /\ \A p, a : a \in Address /\ p.from = o.from /\ p.to = Append(o.to, a)
              => Envelope(p) = Envelope(o) \o <<To(a)>>
<1>1. \A p : Envelope(p) = Senders(p.from) \o Recipients(p.to)
  BY DEF Envelope, Senders, Recipients
<1> DEFINE front == Senders(o.from)
           back  == Recipients(o.to)
<1>2. front \in Seq(Item) /\ back \in Seq(Item) /\ Envelope(o) = front \o back
  BY <1>1, AddressesAreItems
<1>3. ASSUME NEW p, NEW a \in Address, p.from = o.from, p.to = Append(o.to, a)
      PROVE  Envelope(p) = Envelope(o) \o <<To(a)>>
  <2>1. Recipients(p.to) = back \o <<To(a)>>
    BY <1>3, AddressesAreItems
  <2>2. Envelope(p) = front \o (back \o <<To(a)>>)
    BY <1>1, <1>3, <2>1
  <2>3. <<To(a)>> \in Seq(Item)
    BY ItemsAreItems
  <2> HIDE DEF front, back
  <2> QED BY <1>2, <2>2, <2>3, ConcatAssociative
<1>4. Envelope(o) \in Seq(Item)
  <2> HIDE DEF front, back
  <2> QED BY <1>2
<1> QED BY <1>3, <1>4

LEMMA EnvelopeOfSender ==
  ASSUME NEW a \in Address
  PROVE  Envelope([from |-> <<a>>, to |-> <<>>]) = <<From(a)>>
<1>1. Senders(<<a>>) = <<From(a)>> /\ Recipients(<<>>) = <<>>
  BY DEF Senders, Recipients
<1>2. Envelope([from |-> <<a>>, to |-> <<>>]) = Senders(<<a>>) \o Recipients(<<>>)
  BY DEF Envelope, Senders, Recipients
<1>3. <<From(a)>> \in Seq(Item)
  BY ItemsAreItems
<1> QED BY <1>1, <1>2, <1>3

\* A file is the envelope and its NUL at first, and one block more for each that comes.
LEMMA FormatGrows ==
  ASSUME NEW m, Envelope(m.offer) \in Seq(Item), m.blocks \in Nat
  PROVE  /\ Format(m) \in Seq(Item)
         /\ m.blocks = 0 => Format(m) = Envelope(m.offer) \o <<Nul>>
         /\ \A p : p.offer = m.offer /\ p.blocks = m.blocks + 1
              => Format(p) = Format(m) \o <<Block>>
<1> DEFINE head == Envelope(m.offer) \o <<Nul>>
<1>1. <<Nul>> \in Seq(Item) /\ head \in Seq(Item) /\ <<Block>> \in Seq(Item)
  BY ItemsAreItems
<1>2. \A p : p.offer = m.offer => Format(p) = head \o Blocks(p.blocks)
  BY DEF Format, Blocks
<1>3. Blocks(0) = <<>>
  BY DEF Blocks
<1> HIDE DEF head
<1> DEFINE body == Blocks(m.blocks)
<1>4. body \in Seq(Item) /\ Format(m) = head \o body
  BY <1>2, BlocksGrow
<1>5. head \o <<>> = head
  BY <1>1
<1>6. ASSUME NEW p, p.offer = m.offer, p.blocks = m.blocks + 1
      PROVE  Format(p) = Format(m) \o <<Block>>
  <2>1. Format(p) = head \o (body \o <<Block>>)
    BY <1>2, <1>6, BlocksGrow
  <2> HIDE DEF body
  <2> QED BY <1>1, <1>4, <2>1, ConcatAssociative
<1>7. Format(m) \in Seq(Item)
  <2> HIDE DEF body
  <2> QED BY <1>1, <1>4
<1> QED BY <1>2, <1>3, <1>5, <1>6, <1>7 DEF head


-----------------------------------------------------------------------------
(***************************************************************************)
(* The messages stored, and whether anything is promised of them: a hook   *)
(* leaves both alone, but message_end adds its message, and a reset in the *)
(* middle of that removes it, unless it was taken before.                  *)
(***************************************************************************)
SameStore(b, c)    == StoredMessages(c) = StoredMessages(b) /\ Promised(c) = Promised(b)
MayAdd(b, c, n)    == /\ StoredMessages(c) \in {StoredMessages(b), StoredMessages(b) \cup {n}}
                      /\ Promised(c) = Promised(b)
MayRemove(b, c, n) == /\ StoredMessages(c) \in {StoredMessages(b), StoredMessages(b) \ {n}}
                      /\ Promised(c) = Promised(b)

LEMMA StoreParts ==
  ASSUME NEW b
  PROVE  StoredMessages(b) = {f.of : f \in b.new} \cup {f.of : f \in b.taken}
  BY DEF StoredMessages, Stored

\* The store is told by new/, what was taken from there, and the fate of the machine.
LEMMA StoreStays ==
  ASSUME NEW b, NEW c, c.new = b.new, c.taken = b.taken, c.sync = b.sync, c.fate = b.fate
  PROVE  SameStore(b, c)
  BY DEF SameStore, StoredMessages, Stored, Promised

\* A reset removes the file that is linked, if one is, and no other.
LEMMA ResetStores ==
  ASSUME NEW b, Directory(b), Live(b)
  PROVE  /\ MayRemove(b, queuedir_reset(b), b.n)
         /\ ~ Linking(b) => SameStore(b, queuedir_reset(b))
<1>1. PICK c : c = queuedir_reset(b)
  OBVIOUS
<1>2. /\ c.new = IF b.dlen THEN {f \in b.new : f.name # b.name} ELSE b.new
      /\ c.taken = b.taken /\ c.sync = b.sync /\ c.fate = b.fate
  BY <1>1, ResetOutcome DEF Directory
<1>3. \A f \in b.new : f \notin c.new => Linking(b) /\ f.of = b.n
  BY <1>2 DEF Live
<1>4. c.new \subseteq b.new
  BY <1>2
<1>5. StoredMessages(c) \subseteq StoredMessages(b)
  BY <1>2, <1>4 DEF StoredMessages, Stored
<1>6. StoredMessages(b) \ {b.n} \subseteq StoredMessages(c)
  BY <1>2, <1>3 DEF StoredMessages, Stored
<1>7. ~ Linking(b) => StoredMessages(b) \subseteq StoredMessages(c)
  BY <1>2, <1>3 DEF StoredMessages, Stored
<1>8. Promised(c) = Promised(b)
  BY <1>2 DEF Promised
<1>9. StoredMessages(c) \in {StoredMessages(b), StoredMessages(b) \ {b.n}}
  BY <1>5, <1>6
<1> QED BY <1>1, <1>5, <1>7, <1>8, <1>9 DEF MayRemove, SameStore

\* The steps of message_end: one adds the message, and a failure may remove it.
LEMMA GoesOnStores ==
  ASSUME NEW b, Directory(b), Live(b), b.phase # "idle",
         NEW o \in queuedir_message_end_goes_on(b)
  PROVE  \/ o.resp = "busy" /\ MayAdd(b, o.be, b.n)
         \/ o.resp = "none" /\ SameStore(b, o.be)
         \/ o.resp = "temp" /\ MayRemove(b, o.be, b.n)
<1>1. b \in QueuedirState /\ b.phase \in {"sync", "link", "dirsync", "unlink"}
  BY DEF Directory, QueuedirState
<1>2. CASE b.phase = "sync"
  <2>1. o \in SyncAndClose(b)
    BY <1>2 DEF queuedir_message_end_goes_on
  <2>2. CASE o.resp = "busy" /\ Leaves(b, o.be)
    BY <2>2, StoreStays DEF Leaves, MayAdd, SameStore
  <2>3. ASSUME o.resp = "temp", NEW c, Leaves(b, c), c.n = b.n, c.phase = b.phase,
               o.be = queuedir_reset(c)
        PROVE  MayRemove(b, o.be, b.n)
    <3>1. Directory(c) /\ Live(c)
      BY <1>2, <2>3, LeavesKeeps DEF Linking
    <3>2. MayRemove(c, o.be, b.n)
      BY <2>3, <3>1, ResetStores
    <3>3. SameStore(b, c)
      BY <2>3, StoreStays DEF Leaves
    <3> QED BY <3>2, <3>3 DEF MayRemove, SameStore
  <2> QED BY <1>1, <2>1, <2>2, <2>3, SyncOutcome
<1>3. CASE b.phase = "link"
  <2>1. o \in Linked(b, b.sync)
    BY <1>3 DEF queuedir_message_end_goes_on, Link
  <2>2. CASE o.be = queuedir_reset(b) /\ o.resp = "temp"
    BY <2>2, ResetStores
  <2> DEFINE f == [name |-> b.name, of |-> b.n, data |-> b.out.data, safe |-> b.sync,
                   entry |-> FALSE]
             linked == [b EXCEPT !.new = @ \cup {f}]
             p == IF b.sync THEN "dirsync" ELSE "unlink"
  <2>3. CASE o = Step(linked, p)
    <3>1. o.resp = "busy" /\ o.be = [linked EXCEPT !.phase = p]
      BY <2>3 DEF Step, Returns
    <3>2. /\ o.be.new = b.new \cup {f} /\ o.be.taken = b.taken
          /\ o.be.sync = b.sync /\ o.be.fate = b.fate
      BY <1>1, <3>1 DEF QueuedirState
    <3>3. f.of = b.n
      OBVIOUS
    <3> HIDE DEF f
    <3>4. StoredMessages(o.be) = StoredMessages(b) \cup {b.n}
      BY <3>2, <3>3 DEF StoredMessages, Stored
    <3> QED BY <3>1, <3>2, <3>4 DEF MayAdd, Promised
  <2>4. o = Step(linked, p) \/ (o.be = queuedir_reset(b) /\ o.resp = "temp")
    BY <2>1 DEF Linked, MayFail, Returns
  <2> QED BY <2>2, <2>3, <2>4
<1>4. CASE b.phase = "dirsync"
  <2>1. o \in SyncDirectory(b)
    BY <1>4 DEF queuedir_message_end_goes_on
  <2> DEFINE synced == [b EXCEPT !.new = {[f EXCEPT !.entry = TRUE] : f \in @}]
  <2>2. CASE o.be = queuedir_reset(b) /\ o.resp = "temp"
    BY <2>2, ResetStores
  <2>3. CASE o = Step(synced, "unlink")
    <3>1. o.resp = "busy" /\ o.be = [synced EXCEPT !.phase = "unlink"]
      BY <2>3 DEF Step, Returns
    <3>2. /\ o.be.new = {[f EXCEPT !.entry = TRUE] : f \in b.new} /\ o.be.taken = b.taken
          /\ o.be.sync = b.sync /\ o.be.fate = b.fate
      BY <1>1, <3>1 DEF QueuedirState
    <3>3. ASSUME NEW f \in b.new
          PROVE  [f EXCEPT !.entry = TRUE] \in o.be.new /\ [f EXCEPT !.entry = TRUE].of = f.of
      BY <1>1, <3>2, FilesAreOfMessages DEF File
    <3>4. {f.of : f \in o.be.new} = {f.of : f \in b.new}
      <4>1. \A f \in b.new : f.of \in {g.of : g \in o.be.new}
        BY <3>3
      <4>2. ASSUME NEW g \in o.be.new
            PROVE  g.of \in {f.of : f \in b.new}
        <5>1. PICK f \in b.new : g = [f EXCEPT !.entry = TRUE]
          BY <3>2
        <5> QED BY <3>3, <5>1
      <4> QED BY <4>1, <4>2
    <3>5. StoredMessages(o.be) = StoredMessages(b)
      BY <3>2, <3>4, StoreParts
    <3> QED BY <3>1, <3>2, <3>5 DEF MayAdd, Promised
  <2>4. o = Step(synced, "unlink") \/ (o.be = queuedir_reset(b) /\ o.resp = "temp")
    BY <2>1 DEF SyncDirectory, MayFail, Returns
  <2> QED BY <2>2, <2>3, <2>4
<1>5. CASE b.phase = "unlink"
  <2>1. o \in Unlink(b)
    BY <1>5 DEF queuedir_message_end_goes_on
  <2> DEFINE c == [b EXCEPT !.tmp = b.tmp \ {b.name}, !.tlen = FALSE, !.dlen = FALSE,
                            !.phase = "idle"]
  <2>2. o.resp = "none" /\ o.be = c
    BY <2>1 DEF Unlink, Returns
  <2>3. c.new = b.new /\ c.taken = b.taken /\ c.sync = b.sync /\ c.fate = b.fate
    BY <1>1 DEF QueuedirState
  <2> HIDE DEF c
  <2> QED BY <2>2, <2>3, StoreStays
<1> QED BY <1>1, <1>2, <1>3, <1>4, <1>5

\* A power failure stores nothing, and keeps what is promised.
LEMMA PowerFailsStores ==
  ASSUME NEW b, Directory(b), b.fate # "down", NEW mail, NEW W, NEW now, Files(b, mail, W, now),
         NEW c \in PowerFails(b)
  PROVE  /\ StoredMessages(c) \subseteq StoredMessages(b) /\ Promised(b)
         /\ Promised(c) => \A k \in Message : mail[k].verdict = "ack" => k \in StoredMessages(c)
<1>1. Files(c, mail, W, now) /\ \A f \in Stored(c) : \E g \in Stored(b) : g.of = f.of
  BY PowerFailsOutcome
<1>2. StoredMessages(c) \subseteq StoredMessages(b)
  BY <1>1 DEF StoredMessages
<1>3. \A k : Lasting(c, k) => k \in StoredMessages(c)
  BY DEF Lasting, StoredMessages, Stored
<1> QED BY <1>1, <1>2, <1>3 DEF Files, Promised

=============================================================================
