------------------------------ MODULE Pop3_proof ------------------------------
(***************************************************************************)
(* Sessions over one maildir, any number of them, with any messages in any *)
(* places, limits and interleaving: what each session knows may be stale,  *)
(* but only in one direction, and that is why no mail is lost.             *)
(***************************************************************************)
EXTENDS Pop3, FiniteSetTheorems, WellFoundedInduction, TLAPS

-----------------------------------------------------------------------------
(* The invariant                                                           *)

\* The name that message had as f may by now be g, and never f after g.
Later(f, g) ==
  \/ f = g
  \/ /\ g.dir = "cur"
     /\ g.info = f.info \/ (f.info \in {"none", "2"} /\ g.info = "2S")

\* The names a session holds, wherever it has them.
Names(b) ==
  b.list \cup {b.todo[i] : i \in DOMAIN b.todo}
  \cup {b.msgs[i].filename : i \in DOMAIN b.msgs}

\* The maildir F: each message that is in it was delivered, and has one name.
OneNameEach(F, D) ==
  /\ F \subseteq Name /\ IsFiniteSet(F) /\ D \subseteq Message
  /\ \A f \in F : f.id \in D
  /\ \A f, g \in F : f.id = g.id => f = g

\* What a session holds was a name of that message once.
OnceNames(b, F, D) ==
  \A f \in Names(b) : f.id \in D /\ \A g \in F : g.id = f.id => Later(f, g)

\* g is the name of the message that had name f in cur/, once QUIT has flagged it.
Flagged(f, g) ==
  f.dir = "cur" /\ g.dir = "cur" /\ f.info \in {"none", "2"} /\ g.info = "2S"

\* No name is held twice, and a message under two names only if it was flagged
\* while they were read.
HeldOnce(b) ==
  /\ \A f, g \in Names(b) : f.id = g.id => f = g \/ Flagged(f, g) \/ Flagged(g, f)
  /\ \A i, j \in DOMAIN b.todo : b.todo[i] = b.todo[j] => i = j
  /\ \A i, j \in DOMAIN b.msgs : b.msgs[i].filename = b.msgs[j].filename => i = j
  /\ \A i \in DOMAIN b.msgs, j \in DOMAIN b.todo : b.msgs[i].filename # b.todo[j]

\* No more names are held than the limits say.
FewEnough(S) ==
  /\ IsFiniteSet(S)
  /\ MaxCount > 0 => Cardinality(S) <= MaxCount
  /\ MaxCur > 0 => Cardinality(Within("cur", S)) <= MaxCur
  /\ MaxNew > 0 => Cardinality(Within("new", S)) <= MaxNew

\* What is held where, at each point p of a session; i is its loop variable.
Stage(p, b, i) ==
  /\ p \notin {"cur", "new"} => b.list = {}
  /\ p \in {"cur", "new"} => b.msgs = <<>>
  /\ p = "cur" => \A f \in b.list : f.dir = "cur"
  /\ p # "make" => b.todo = <<>>
  /\ i > 0
  /\ p # "quit" => i = 1

\* An entry is marked deleted since the client asked (k), or its file is gone.
Excused(p, b, k, F) ==
  p \in {"cur", "new", "make", "command", "quit"} =>
    \A j \in DOMAIN b.msgs :
      b.msgs[j].deleted => b.msgs[j].filename \in k \/ b.msgs[j].filename \notin F

\* Behind the loop of QUIT nothing deleted is left.
Swept(p, b, i, F) ==
  p = "quit" => \A j \in DOMAIN b.msgs :
                  j < i /\ b.msgs[j].deleted => b.msgs[j].filename \notin F

\* Flag S, in the maildir or held, is on messages that were fetched (R).
ReadIn(S, R) == \A f \in S : f.info = "2S" => f.id \in R

WasRead(b, R) ==
  /\ ReadIn(Names(b), R)
  /\ \A j \in DOMAIN b.msgs : b.msgs[j].read => b.msgs[j].filename.id \in R

\* Every refused login is counted.
Counted(p, a) ==
  /\ a.refused = a.auth_count
  /\ AuthMax > 0 => a.refused < AuthMax
  /\ p # "auth" => a = NoAuth

Places == {"idle", "auth", "start", "cur", "new", "make", "command", "quit"}

\* All that is known of one session.
Holds(p, a, b, i, k, F, D, R) ==
  /\ p \in Places /\ a \in Auth /\ b \in Box /\ i \in Nat /\ k \in SUBSET Name
  /\ OnceNames(b, F, D) /\ HeldOnce(b) /\ FewEnough(Names(b)) /\ Stage(p, b, i)
  /\ Excused(p, b, k, F) /\ Swept(p, b, i, F) /\ WasRead(b, R) /\ Counted(p, a)

Inductive ==
  /\ pc \in [Session -> Places] /\ auth_state \in [Session -> Auth]
  /\ box \in [Session -> Box] /\ pos \in [Session -> Nat]
  /\ asked \in [Session -> SUBSET Name]
  /\ fetched \subseteq Message
  /\ OneNameEach(files, delivered)
  /\ ReadIn(files, fetched)
  /\ \A s \in Session :
       Holds(pc[s], auth_state[s], box[s], pos[s], asked[s], files, delivered, fetched)

-----------------------------------------------------------------------------
(* The maildir as it changes                                               *)

\* How a step may change the maildir: names go, or move on, or belong to mail
\* that was never there.
Evolves(F, D, F2, D2) ==
  /\ D \subseteq D2
  /\ \A g \in F2 : g.id \notin D \/ \E f \in F : f.id = g.id /\ Later(f, g)

\* A name two steps on is a later name still.
LEMMA LaterTransitive ==
  ASSUME NEW f \in Name, NEW g \in Name, NEW h \in Name, Later(f, g), Later(g, h)
  PROVE  Later(f, h)
  BY DEF Later

\* No name comes back.
LEMMA LaterOnce ==
  ASSUME NEW f \in Name, NEW g \in Name, f.id = g.id, Later(f, g), Later(g, f)
  PROVE  f = g
  BY DEF Later, Name

\* A name that a session holds stays a former name, and once gone it is gone.
LEMMA StaleStays ==
  ASSUME NEW F, NEW D, NEW F2, NEW D2, F \subseteq Name, F2 \subseteq Name,
         Evolves(F, D, F2, D2),
         NEW f \in Name, f.id \in D, \A g \in F : g.id = f.id => Later(f, g)
  PROVE  /\ f.id \in D2
         /\ \A g \in F2 : g.id = f.id => Later(f, g)
         /\ f \notin F => f \notin F2
<1>1. ASSUME NEW g \in F2, g.id = f.id
      PROVE  \E e \in F : e.id = f.id /\ Later(f, e) /\ Later(e, g)
  BY <1>1 DEF Evolves
<1>2. \A g \in F2 : g.id = f.id => Later(f, g)
  BY <1>1, LaterTransitive
<1>3. ASSUME f \in F2 PROVE f \in F
  <2>1. PICK e \in F : e.id = f.id /\ Later(f, e) /\ Later(e, f)
    BY <1>1, <1>3
  <2> QED BY <2>1, LaterOnce
<1> QED BY <1>2, <1>3 DEF Evolves

\* The names of a session are names.
LEMMA NamesAreNames ==
  ASSUME NEW b \in Box
  PROVE  Names(b) \subseteq Name
<1>1. b.list \subseteq Name /\ b.todo \in Seq(Name) /\ b.msgs \in Seq(Msg)
  BY DEF Box
<1>2. \A i \in DOMAIN b.todo : b.todo[i] \in Name
  BY <1>1
<1>3. \A i \in DOMAIN b.msgs : b.msgs[i] \in Msg
  BY <1>1
<1>4. \A i \in DOMAIN b.msgs : b.msgs[i].filename \in Name
  BY <1>3 DEF Msg
<1> QED BY <1>1, <1>2, <1>4 DEF Names

\* What is known of a session stays true while others change the maildir.
LEMMA OthersHold ==
  ASSUME NEW p, NEW a, NEW b, NEW i, NEW k, NEW F, NEW D, NEW R, NEW F2, NEW D2, NEW R2,
         Holds(p, a, b, i, k, F, D, R), F \subseteq Name, F2 \subseteq Name,
         Evolves(F, D, F2, D2), R \subseteq R2
  PROVE  Holds(p, a, b, i, k, F2, D2, R2)
<1>1. b \in Box /\ Names(b) \subseteq Name
  BY NamesAreNames DEF Holds
<1>2. \A f \in Names(b) : /\ f.id \in D2 /\ \A g \in F2 : g.id = f.id => Later(f, g)
                          /\ f \notin F => f \notin F2
  BY <1>1, StaleStays DEF Holds, OnceNames
<1>3. \A j \in DOMAIN b.msgs : b.msgs[j].filename \in Names(b)
  BY DEF Names
<1>4. OnceNames(b, F2, D2)
  BY <1>2 DEF OnceNames
<1>5. Excused(p, b, k, F2) /\ Swept(p, b, i, F2)
  BY <1>2, <1>3 DEF Holds, Excused, Swept
<1>6. WasRead(b, R2)
  BY DEF Holds, WasRead, ReadIn
<1> QED BY <1>4, <1>5, <1>6 DEF Holds

\* A maildir that is left alone evolves.
LEMMA NothingEvolves ==
  ASSUME NEW F, NEW D
  PROVE  Evolves(F, D, F, D)
  BY DEF Evolves, Later

\* A step of session s alone.
StepOf(s) ==
  /\ pc' = [pc EXCEPT ![s] = pc'[s]]
  /\ auth_state' = [auth_state EXCEPT ![s] = auth_state'[s]]
  /\ box' = [box EXCEPT ![s] = box'[s]]
  /\ pos' = [pos EXCEPT ![s] = pos'[s]]
  /\ asked' = [asked EXCEPT ![s] = asked'[s]]

\* It preserves the invariant if it does for that session and the maildir.
LEMMA SessionStep ==
  ASSUME Inductive, NEW s \in Session, StepOf(s),
         Evolves(files, delivered, files', delivered'),
         OneNameEach(files', delivered'), ReadIn(files', fetched'),
         fetched \subseteq fetched', fetched' \subseteq Message,
         Holds(pc'[s], auth_state'[s], box'[s], pos'[s], asked'[s], files', delivered', fetched')
  PROVE  Inductive'
<1>1. /\ pc'[s] \in Places /\ auth_state'[s] \in Auth /\ box'[s] \in Box
      /\ pos'[s] \in Nat /\ asked'[s] \in SUBSET Name
  BY DEF Holds
<1>2. /\ pc' \in [Session -> Places] /\ auth_state' \in [Session -> Auth]
      /\ box' \in [Session -> Box] /\ pos' \in [Session -> Nat]
      /\ asked' \in [Session -> SUBSET Name]
  BY <1>1 DEF Inductive, StepOf
<1>3. ASSUME NEW t \in Session, t # s
      PROVE  Holds(pc'[t], auth_state'[t], box'[t], pos'[t], asked'[t], files', delivered', fetched')
  <2>1. /\ pc'[t] = pc[t] /\ auth_state'[t] = auth_state[t] /\ box'[t] = box[t]
        /\ pos'[t] = pos[t] /\ asked'[t] = asked[t]
    BY <1>3 DEF Inductive, StepOf
  <2>2. Holds(pc[t], auth_state[t], box[t], pos[t], asked[t], files, delivered, fetched)
    BY DEF Inductive
  <2>3. files \subseteq Name /\ files' \subseteq Name
    BY DEF Inductive, OneNameEach
  <2> QED BY <2>1, <2>2, <2>3, OthersHold
<1> QED BY <1>2, <1>3 DEF Inductive

\* The same of a step that leaves the maildir alone.
LEMMA QuietStep ==
  ASSUME Inductive, NEW s \in Session, StepOf(s),
         UNCHANGED <<files, delivered>>,
         fetched \subseteq fetched', fetched' \subseteq Message,
         Holds(pc'[s], auth_state'[s], box'[s], pos'[s], asked'[s], files, delivered, fetched')
  PROVE  Inductive'
<1>1. Evolves(files, delivered, files', delivered')
  BY NothingEvolves
<1>2. OneNameEach(files', delivered') /\ ReadIn(files', fetched')
  BY DEF Inductive, ReadIn
<1>3. Holds(pc'[s], auth_state'[s], box'[s], pos'[s], asked'[s], files', delivered', fetched')
  OBVIOUS
<1> QED BY <1>1, <1>2, <1>3, SessionStep

\* A delivery adds a name of its own.
LEMMA DeliverPreserves ==
  ASSUME Inductive, NEW m \in Message, Deliver(m)
  PROVE  Inductive'
<1> DEFINE new == [dir |-> "new", id |-> m, info |-> "none"]
<1>1. /\ m \notin delivered /\ delivered' = delivered \cup {m} /\ files' = files \cup {new}
      /\ UNCHANGED <<pc, auth_state, box, pos, asked, fetched>>
  BY DEF Deliver
<1>2. new \in Name /\ new.id = m /\ new.info = "none"
  BY DEF Name, Info
<1> HIDE DEF new
<1>3. OneNameEach(files, delivered)
  BY DEF Inductive
<1>4. IsFiniteSet(files')
  BY <1>1, <1>3, FS_AddElement DEF OneNameEach
<1>5. OneNameEach(files', delivered')
  BY <1>1, <1>2, <1>3, <1>4 DEF OneNameEach
<1>6. Evolves(files, delivered, files', delivered')
  BY <1>1, <1>2, <1>3 DEF OneNameEach, Evolves, Later
<1>7. ReadIn(files', fetched')
  BY <1>1, <1>2 DEF Inductive, ReadIn
<1>8. ASSUME NEW s \in Session
      PROVE  Holds(pc'[s], auth_state'[s], box'[s], pos'[s], asked'[s], files', delivered', fetched')
  <2>1. Holds(pc[s], auth_state[s], box[s], pos[s], asked[s], files, delivered, fetched)
    BY DEF Inductive
  <2>2. files \subseteq Name /\ files' \subseteq Name
    BY <1>3, <1>5 DEF OneNameEach
  <2> QED BY <1>1, <1>6, <2>1, <2>2, OthersHold
<1> QED BY <1>1, <1>5, <1>7, <1>8 DEF Inductive

\* What QUIT does with one message m: its name moves on, or goes if m is deleted.
LEMMA QuitMsgOutcome ==
  ASSUME NEW F, NEW D, OneNameEach(F, D), NEW m \in Msg,
         \A g \in F : g.id = m.filename.id => Later(m.filename, g)
  PROVE  LET F2 == quit_msg(m, F)
         IN  /\ OneNameEach(F2, D)
             /\ Evolves(F, D, F2, D)
             /\ \A f \in F : (\E g \in F2 : g.id = f.id) \/ (m.deleted /\ f = m.filename)
             /\ m.deleted => m.filename \notin F2
             /\ \A g \in F2 : g \in F \/ (g.id = m.filename.id /\ (g.info = "2S" => 
                                            m.read \/ m.filename.info = "2S"))
<1> DEFINE f == m.filename
           g == [f EXCEPT !.dir = "cur", !.info = IF m.read THEN add_flag(@) ELSE @]
<1>1. f \in Name /\ m.read \in BOOLEAN /\ m.deleted \in BOOLEAN
  BY DEF Msg
<1>2. /\ g \in Name /\ g.id = f.id /\ g.dir = "cur" /\ Later(f, g)
      /\ g.info = "2S" => m.read \/ f.info = "2S"
  BY <1>1 DEF Name, Info, Later, add_flag
<1>3. CASE m.deleted
  <2>1. quit_msg(m, F) = F \ {f}
    BY <1>3 DEF quit_msg, unlink
  <2>2. IsFiniteSet(F \ {f})
    BY FS_RemoveElement DEF OneNameEach
  <2> QED BY <1>3, <2>1, <2>2 DEF OneNameEach, Evolves, Later
<1>4. CASE ~ m.deleted /\ f \notin F
  <2>1. quit_msg(m, F) = F
    BY <1>4 DEF quit_msg, rename
  <2> QED BY <1>4, <2>1, NothingEvolves
<1>5. CASE ~ m.deleted /\ f \in F
  <2> HIDE DEF g
  <2>1. quit_msg(m, F) = (F \ {f}) \cup {g}
    BY <1>5 DEF quit_msg, rename, g
  <2> HIDE DEF f
  <2>2. IsFiniteSet((F \ {f}) \cup {g})
    BY FS_RemoveElement, FS_AddElement DEF OneNameEach
  <2>3. \A e \in F : e.id = f.id => e = f
    BY <1>5 DEF OneNameEach
  <2>4. OneNameEach((F \ {f}) \cup {g}, D)
    BY <1>2, <1>5, <2>2, <2>3 DEF OneNameEach
  <2>5. Evolves(F, D, (F \ {f}) \cup {g}, D)
    BY <1>2, <1>5 DEF Evolves, Later
  <2>6. \A e \in F : \E h \in (F \ {f}) \cup {g} : h.id = e.id
    BY <1>2
  <2> QED BY <1>2, <1>5, <2>1, <2>4, <2>5, <2>6 DEF f
<1> QED BY <1>1, <1>3, <1>4, <1>5

-----------------------------------------------------------------------------
(* What the operations of a session keep                                   *)

\* The limits are numbers.
LEMMA LimitsAreNumbers ==
  MaxCount \in Nat /\ MaxCur \in Nat /\ MaxNew \in Nat /\ AuthMax \in Nat
  BY MaildirAssumption, Pop3AuthAssumption

\* Fewer names than few enough are few enough.
LEMMA FewerAreFewEnough ==
  ASSUME NEW S, NEW T, T \subseteq S, FewEnough(S)
  PROVE  FewEnough(T)
<1>1. IsFiniteSet(S) /\ IsFiniteSet(T) /\ Cardinality(T) <= Cardinality(S)
      /\ Cardinality(S) \in Nat /\ Cardinality(T) \in Nat
  BY FS_Subset, FS_CardinalityType DEF FewEnough
<1>2. ASSUME NEW dir
      PROVE  /\ Cardinality(Within(dir, T)) <= Cardinality(Within(dir, S))
             /\ Cardinality(Within(dir, S)) \in Nat /\ Cardinality(Within(dir, T)) \in Nat
  <2>1. Within(dir, T) \subseteq Within(dir, S) /\ Within(dir, S) \subseteq S
    BY DEF Within
  <2>2. IsFiniteSet(Within(dir, S))
    BY <1>1, <2>1, FS_Subset
  <2> QED BY <2>1, <2>2, FS_Subset, FS_CardinalityType
<1> QED BY <1>1, <1>2, LimitsAreNumbers DEF FewEnough

\* Nothing is few enough.
LEMMA NoneAreFewEnough == FewEnough({})
<1>1. IsFiniteSet({}) /\ Cardinality({}) = 0 /\ Within("cur", {}) = {} /\ Within("new", {}) = {}
  BY FS_EmptySet DEF Within
<1> QED BY <1>1, LimitsAreNumbers, SMTT(30) DEF FewEnough

\* Where no limit is reached there is room for one name more.
LEMMA OneMoreIsFewEnough ==
  ASSUME NEW b, FewEnough(b.list), NEW dir \in {"cur", "new"}, ~ Full(b, dir),
         NEW f, f \notin b.list, f.dir = dir
  PROVE  FewEnough(b.list \cup {f})
<1> DEFINE S == b.list
           T == S \cup {f}
<1>1. /\ IsFiniteSet(S) /\ Cardinality(S) \in Nat
      /\ IsFiniteSet(T) /\ Cardinality(T) = Cardinality(S) + 1
  BY FS_AddElement, FS_CardinalityType DEF FewEnough
<1>2. /\ Within(dir, T) = Within(dir, S) \cup {f} /\ f \notin Within(dir, S)
      /\ \A d \in {"cur", "new"} : d # dir => Within(d, T) = Within(d, S)
      /\ Within(dir, S) \subseteq S
  BY DEF Within
<1>3. IsFiniteSet(Within(dir, S)) /\ Cardinality(Within(dir, S)) \in Nat
      /\ Cardinality(Within(dir, T)) = Cardinality(Within(dir, S)) + 1
  <2>1. IsFiniteSet(Within(dir, S)) /\ Cardinality(Within(dir, S)) \in Nat
    BY <1>1, <1>2, FS_Subset, FS_CardinalityType
  <2> DEFINE W == Within(dir, S)
  <2> HIDE DEF W
  <2>2. Cardinality(W \cup {f}) = Cardinality(W) + 1
    BY <1>2, <2>1, FS_AddElement DEF W
  <2> QED BY <1>2, <2>1, <2>2 DEF W
<1>4. /\ MaxCount > 0 => Cardinality(S) < MaxCount
      /\ dir = "cur" /\ MaxCur > 0 => Cardinality(Within("cur", S)) < MaxCur
      /\ dir = "new" /\ MaxNew > 0 => Cardinality(Within("new", S)) < MaxNew
  <2>1. ~ (MaxCount > 0 /\ Cardinality(S) >= MaxCount)
    BY DEF Full
  <2>2. CASE dir = "cur"
    <3>1. ~ (MaxCur > 0 /\ Cardinality(Within("cur", S)) >= MaxCur)
      BY <2>2 DEF Full
    <3> HIDE DEF S
    <3> QED BY <1>1, <1>3, <2>1, <2>2, <3>1, LimitsAreNumbers
  <2>3. CASE dir = "new"
    <3>1. ~ (MaxNew > 0 /\ Cardinality(Within("new", S)) >= MaxNew)
      BY <2>3 DEF Full
    <3> HIDE DEF S
    <3> QED BY <1>1, <1>3, <2>1, <2>3, <3>1, LimitsAreNumbers
  <2> QED BY <2>2, <2>3
<1>5. /\ MaxCount > 0 => Cardinality(S) <= MaxCount
      /\ MaxCur > 0 => Cardinality(Within("cur", S)) <= MaxCur
      /\ MaxNew > 0 => Cardinality(Within("new", S)) <= MaxNew
  BY DEF FewEnough
<1> HIDE DEF S, T
<1>6. MaxCount > 0 => Cardinality(T) <= MaxCount
  BY <1>1, <1>4, LimitsAreNumbers
<1>7. CASE dir = "cur"
  <2>1. Within("new", T) = Within("new", S)
    BY <1>2, <1>7
  <2>2. MaxCur > 0 => Cardinality(Within("cur", T)) <= MaxCur
    BY <1>3, <1>4, <1>7, LimitsAreNumbers
  <2> QED BY <1>1, <1>5, <1>6, <2>1, <2>2 DEF FewEnough, T, S
<1>8. CASE dir = "new"
  <2>1. Within("cur", T) = Within("cur", S)
    BY <1>2, <1>8
  <2>2. MaxNew > 0 => Cardinality(Within("new", T)) <= MaxNew
    BY <1>3, <1>4, <1>8, LimitsAreNumbers
  <2> QED BY <1>1, <1>5, <1>6, <2>1, <2>2 DEF FewEnough, T, S
<1> QED BY <1>7, <1>8

\* Sorting keeps each name once.
LEMMA SortedOutcome ==
  ASSUME NEW S \in SUBSET Name, IsFiniteSet(S), NEW names \in Sorted(S)
  PROVE  /\ names \in Seq(Name)
         /\ \A i \in DOMAIN names : names[i] \in S
         /\ \A i, j \in DOMAIN names : names[i] = names[j] => i = j
<1> DEFINE n == Cardinality(S)
<1>1. n \in Nat
  BY FS_CardinalityType
<1>2. names \in [1 .. n -> S] /\ \A i, j \in 1 .. n : i # j => names[i] # names[j]
  BY DEF Sorted, SetToSeqs
<1> HIDE DEF n
<1>3. names \in Seq(S)
  BY <1>1, <1>2
<1> QED BY <1>2, <1>3

\* A scan starts with nothing held.
LEMMA ScanMaildirOutcome ==
  ASSUME NEW b \in Box, NEW F \in SUBSET Name, NEW D, NEW R, b.todo = <<>>, b.list = {}
  PROVE  LET c == scan_maildir(b, F)
         IN  /\ c \in Box /\ c.msgs = <<>> /\ c.todo = <<>> /\ c.list = {}
             /\ OnceNames(c, F, D) /\ HeldOnce(c) /\ FewEnough(Names(c)) /\ WasRead(c, R)
<1> DEFINE c == scan_maildir(b, F)
<1>1. c = [b EXCEPT !.msgs = <<>>, !.msg_bytes = 0, !.there = Within("cur", F)]
  BY DEF scan_maildir, opendir, Box
<1>2. Within("cur", F) \in SUBSET Name /\ <<>> \in Seq(Msg) /\ 0 \in Nat
  BY DEF Within
<1> HIDE DEF c
<1>3. c \in Box /\ c.msgs = <<>> /\ c.todo = <<>> /\ c.list = {}
  BY <1>1, <1>2 DEF Box
<1>4. Names(c) = {}
  BY <1>3 DEF Names
<1>5. FewEnough({})
  BY NoneAreFewEnough
<1> QED BY <1>3, <1>4, <1>5 DEF OnceNames, HeldOnce, WasRead, ReadIn, c

\* To open new/ changes nothing that is held.
LEMMA OpendirOutcome ==
  ASSUME NEW b \in Box, NEW F \in SUBSET Name, NEW dir
  PROVE  LET c == opendir(b, dir, F)
         IN  c \in Box /\ c.msgs = b.msgs /\ c.todo = b.todo /\ c.list = b.list
  BY DEF opendir, Box, Within

\* An entry that is read is a name more, of a message that is held already only
\* if it was flagged meanwhile; what moved to cur/ is not found again in new/.
LEMMA ReaddirOutcome ==
  ASSUME NEW b \in Box, NEW F, NEW D, OneNameEach(F, D), NEW R, ReadIn(F, R),
         b.todo = <<>>, b.msgs = <<>>, NEW p \in {"cur", "new"},
         p = "cur" => \A f \in b.list : f.dir = "cur",
         OnceNames(b, F, D), HeldOnce(b), FewEnough(Names(b)), WasRead(b, R),
         NEW c \in readdir(b, p, F)
  PROVE  /\ c \in Box /\ c.msgs = <<>> /\ c.todo = <<>>
         /\ p = "cur" => \A f \in c.list : f.dir = "cur"
         /\ OnceNames(c, F, D) /\ HeldOnce(c) /\ FewEnough(Names(c)) /\ WasRead(c, R)
<1>1. PICK f \in Within(p, F) \ b.list : c = [b EXCEPT !.list = @ \cup {f}]
  BY DEF readdir
<1>2. f \in F /\ f \in Name /\ f.dir = p /\ f \notin b.list /\ ~ Full(b, p)
  BY <1>1 DEF Within, OneNameEach, readdir
<1>3. /\ c \in Box /\ c.list = b.list \cup {f} /\ c.msgs = <<>> /\ c.todo = <<>>
  BY <1>1, <1>2 DEF Box
<1>4. Names(b) = b.list /\ Names(c) = b.list \cup {f} /\ b.list \subseteq Name
  BY <1>3, NamesAreNames DEF Names
<1>5. FewEnough(b.list \cup {f})
  BY <1>2, <1>4, OneMoreIsFewEnough
<1>6. OnceNames(c, F, D)
  BY <1>2, <1>4 DEF OnceNames, OneNameEach, Later
<1>7. ASSUME NEW g \in b.list, g.id = f.id
      PROVE  Flagged(g, f)
  <2>1. Later(g, f) /\ g # f /\ g \in Name
    BY <1>2, <1>4, <1>7 DEF OnceNames
  <2>2. f.dir = "cur" /\ g.dir = "cur"
    BY <1>2, <2>1 DEF Later
  <2>3. g.info # f.info
    BY <1>2, <1>7, <2>1, <2>2 DEF Name
  <2> QED BY <2>1, <2>2, <2>3 DEF Later, Flagged
<1>8. HeldOnce(c)
  BY <1>3, <1>4, <1>7 DEF HeldOnce
<1>9. WasRead(c, R)
  BY <1>2, <1>3, <1>4 DEF WasRead, ReadIn
<1> QED BY <1>2, <1>3, <1>4, <1>5, <1>6, <1>8, <1>9

\* The names that were read, in order.
LEMMA SortOutcome ==
  ASSUME NEW b \in Box, NEW F, NEW D, NEW R, b.todo = <<>>, b.msgs = <<>>,
         OnceNames(b, F, D), HeldOnce(b), FewEnough(Names(b)), WasRead(b, R),
         NEW c \in sort_list(b)
  PROVE  /\ c \in Box /\ c.msgs = <<>> /\ c.list = {}
         /\ OnceNames(c, F, D) /\ HeldOnce(c) /\ FewEnough(Names(c)) /\ WasRead(c, R)
<1> DEFINE read == [b EXCEPT !.there = {}, !.list = {}]
<1>1. Names(b) = b.list /\ b.list \in SUBSET Name /\ IsFiniteSet(b.list)
  <2>1. Names(b) = b.list
    BY DEF Names
  <2>2. b.list \in SUBSET Name
    BY DEF Box
  <2> QED BY <2>1, <2>2 DEF FewEnough
<1>2. read \in Box /\ read.list = {} /\ read.todo = <<>> /\ read.msgs = <<>>
  BY DEF Box
<1>3. /\ c \in Box /\ c.msgs = <<>> /\ c.list = {}
      /\ \A i \in DOMAIN c.todo : c.todo[i] \in b.list
      /\ \A i, j \in DOMAIN c.todo : c.todo[i] = c.todo[j] => i = j
  <2>1. CASE b.list = {}
    <3>1. c = read
      BY <2>1 DEF sort_list
    <3> HIDE DEF read
    <3> QED BY <1>2, <3>1
  <2>2. CASE b.list # {}
    <3>1. PICK names \in Sorted(b.list) :
            c = [read EXCEPT !.todo = names, !.del_count = 0, !.del_bytes = 0]
      BY <2>2 DEF sort_list
    <3>2. /\ names \in Seq(Name) /\ \A i \in DOMAIN names : names[i] \in b.list
          /\ \A i, j \in DOMAIN names : names[i] = names[j] => i = j
      BY <1>1, SortedOutcome
    <3> HIDE DEF read
    <3> QED BY <1>2, <3>1, <3>2 DEF Box
  <2> QED BY <2>1, <2>2
<1>4. Names(c) \subseteq Names(b)
  BY <1>1, <1>3 DEF Names
<1>5. FewEnough(Names(c))
  BY <1>4, FewerAreFewEnough
<1>6. HeldOnce(c)
  BY <1>3, <1>4 DEF HeldOnce
<1>7. OnceNames(c, F, D) /\ WasRead(c, R)
  BY <1>3, <1>4 DEF OnceNames, WasRead, ReadIn
<1> QED BY <1>3, <1>5, <1>6, <1>7

\* One entry more of msgs: it is marked deleted only if its name is gone.
LEMMA MakeNextOutcome ==
  ASSUME NEW b \in Box, NEW F, NEW D, NEW R,
         b.list = {}, b.todo # <<>>,
         OnceNames(b, F, D), HeldOnce(b), FewEnough(Names(b)), WasRead(b, R)
  PROVE  LET c == make_next(b, F)
         IN  /\ c \in Box /\ c.list = {}
             /\ OnceNames(c, F, D) /\ HeldOnce(c) /\ FewEnough(Names(c)) /\ WasRead(c, R)
             /\ \A j \in DOMAIN c.msgs :
                  \/ j \in DOMAIN b.msgs /\ c.msgs[j] = b.msgs[j]
                  \/ c.msgs[j].deleted => c.msgs[j].filename \notin F
<1> DEFINE f == Head(b.todo)
           m == make_msg(f, F)
           c == make_next(b, F)
<1>1. /\ b.todo \in Seq(Name) /\ b.msgs \in Seq(Msg) /\ b.msg_bytes \in Nat
      /\ Len(b.todo) \in Nat \ {0} /\ f = b.todo[1] /\ f \in Name
      /\ Tail(b.todo) \in Seq(Name) /\ Len(Tail(b.todo)) = Len(b.todo) - 1
      /\ \A j \in 1 .. Len(b.todo) - 1 : Tail(b.todo)[j] = b.todo[j + 1]
  BY DEF Box
<1>2. /\ m \in Msg /\ m.filename = f
      /\ m.deleted => f \notin F
      /\ m.read => f.info = "2S"
  <2>1. f.id \in Message
    BY <1>1 DEF Name
  <2>2. Bytes[f.id] \in Nat
    BY <2>1, MaildirAssumption
  <2> QED BY <1>1, <2>2 DEF make_msg, Msg
<1> HIDE DEF f
<1>3. m.size \in Nat
  BY <1>2 DEF Msg
<1>4. /\ c \in Box /\ c.list = {} /\ c.todo = Tail(b.todo) /\ c.msgs = Append(b.msgs, m)
  <2>1. c = [b EXCEPT !.todo = Tail(b.todo), !.msgs = Append(b.msgs, m), !.msg_bytes = b.msg_bytes + m.size]
    BY DEF make_next, f
  <2> HIDE DEF m
  <2>2. Append(b.msgs, m) \in Seq(Msg) /\ b.msg_bytes + m.size \in Nat
    BY <1>1, <1>2, <1>3
  <2> HIDE DEF c
  <2> QED BY <1>1, <2>1, <2>2 DEF Box
<1> HIDE DEF m, c
<1>5. /\ DOMAIN c.msgs = 1 .. Len(b.msgs) + 1 /\ DOMAIN b.msgs = 1 .. Len(b.msgs)
      /\ \A j \in 1 .. Len(b.msgs) : c.msgs[j] = b.msgs[j]
      /\ c.msgs[Len(b.msgs) + 1] = m /\ Len(b.msgs) \in Nat
  BY <1>1, <1>2, <1>4
<1>6. /\ DOMAIN b.todo = 1 .. Len(b.todo) /\ DOMAIN c.todo = 1 .. Len(b.todo) - 1
      /\ \A j \in DOMAIN c.todo : j + 1 \in DOMAIN b.todo /\ j + 1 # 1 /\ c.todo[j] = b.todo[j + 1]
  BY <1>1, <1>4
<1>7. f \in Names(b) /\ 1 \in DOMAIN b.todo
  BY <1>1, <1>6 DEF Names
<1>8. Names(c) \subseteq Names(b)
  <2>1. \A j \in DOMAIN c.todo : c.todo[j] \in Names(b)
    BY <1>6 DEF Names
  <2>2. \A j \in DOMAIN c.msgs : c.msgs[j].filename \in Names(b)
    BY <1>2, <1>5, <1>7 DEF Names
  <2> QED BY <1>4, <2>1, <2>2 DEF Names
<1>9. FewEnough(Names(c)) /\ OnceNames(c, F, D)
  BY <1>8, FewerAreFewEnough DEF OnceNames
<1>10. HeldOnce(c)
  <2>1. \A i, j \in DOMAIN c.todo : c.todo[i] = c.todo[j] => i = j
    <3> SUFFICES ASSUME NEW i \in DOMAIN c.todo, NEW j \in DOMAIN c.todo, c.todo[i] = c.todo[j]
                 PROVE  i = j
      OBVIOUS
    <3>1. /\ i + 1 \in DOMAIN b.todo /\ j + 1 \in DOMAIN b.todo
          /\ b.todo[i + 1] = b.todo[j + 1]
      BY <1>6
    <3>2. i + 1 = j + 1
      BY <3>1 DEF HeldOnce
    <3> QED BY <1>6, <3>2
  <2>2. ASSUME NEW i \in DOMAIN c.msgs, NEW j \in DOMAIN c.todo
        PROVE  c.msgs[i].filename # c.todo[j]
    <3>0. PICK n \in DOMAIN b.todo : n # 1 /\ c.todo[j] = b.todo[n]
      BY <1>6
    <3>1. CASE i \in 1 .. Len(b.msgs)
      <4>1. i \in DOMAIN b.msgs /\ c.msgs[i] = b.msgs[i]
        BY <1>5, <3>1
      <4> QED BY <3>0, <4>1 DEF HeldOnce
    <3>2. CASE i = Len(b.msgs) + 1
      <4>1. c.msgs[i].filename = b.todo[1]
        BY <1>1, <1>2, <1>5, <3>2
      <4> QED BY <1>7, <3>0, <4>1 DEF HeldOnce
    <3> QED BY <1>5, <3>1, <3>2
  <2>3. \A j \in 1 .. Len(b.msgs) : b.msgs[j].filename # f
    BY <1>1, <1>5, <1>7 DEF HeldOnce
  <2>4. ASSUME NEW i \in DOMAIN c.msgs, NEW j \in DOMAIN c.msgs,
               c.msgs[i].filename = c.msgs[j].filename
        PROVE  i = j
    <3>1. CASE i \in 1 .. Len(b.msgs) /\ j \in 1 .. Len(b.msgs)
      BY <1>5, <2>4, <3>1 DEF HeldOnce
    <3>2. \A h \in 1 .. Len(b.msgs) : c.msgs[h].filename # f
      BY <1>5, <2>3
    <3>3. c.msgs[Len(b.msgs) + 1].filename = f
      BY <1>2, <1>5
    <3>4. CASE i = Len(b.msgs) + 1 \/ j = Len(b.msgs) + 1
      BY <1>5, <2>4, <3>2, <3>3, <3>4
    <3> QED BY <1>5, <3>1, <3>4
  <2>5. \A e, g \in Names(c) : e.id = g.id => e = g \/ Flagged(e, g) \/ Flagged(g, e)
    BY <1>8 DEF HeldOnce
  <2> QED BY <2>1, <2>2, <2>4, <2>5 DEF HeldOnce
<1>11. WasRead(c, R)
  <2>1. ReadIn(Names(c), R)
    BY <1>8 DEF WasRead, ReadIn
  <2>2. m.read => m.filename.id \in R
    BY <1>2, <1>7 DEF WasRead, ReadIn
  <2>3. \A j \in DOMAIN c.msgs : c.msgs[j].read => c.msgs[j].filename.id \in R
    BY <1>5, <2>2 DEF WasRead
  <2> QED BY <2>1, <2>3 DEF WasRead
<1>12. \A j \in DOMAIN c.msgs :
         \/ j \in DOMAIN b.msgs /\ c.msgs[j] = b.msgs[j]
         \/ c.msgs[j].deleted => c.msgs[j].filename \notin F
  BY <1>2, <1>5
<1> QED BY <1>4, <1>9, <1>10, <1>11, <1>12 DEF c

\* A message marked: DELE and RETR change one entry of msgs, and no name.
LEMMA MarkOutcome ==
  ASSUME NEW b \in Box, NEW c \in Box, NEW i \in DOMAIN b.msgs, NEW m \in Msg,
         c.list = b.list, c.todo = b.todo, c.msgs = [b.msgs EXCEPT ![i] = m],
         m.filename = b.msgs[i].filename,
         NEW F, NEW D, NEW R, NEW R2, R \subseteq R2, m.read => b.msgs[i].read \/ m.filename.id \in R2,
         OnceNames(b, F, D), HeldOnce(b), FewEnough(Names(b)), WasRead(b, R)
  PROVE  OnceNames(c, F, D) /\ HeldOnce(c) /\ FewEnough(Names(c)) /\ WasRead(c, R2)
<1>1. /\ DOMAIN c.msgs = DOMAIN b.msgs
      /\ \A j \in DOMAIN c.msgs : /\ c.msgs[j].filename = b.msgs[j].filename
                                  /\ c.msgs[j].read => b.msgs[j].read \/ c.msgs[j].filename.id \in R2
  BY DEF Box
<1>2. Names(c) = Names(b)
  BY <1>1 DEF Names
<1>3. OnceNames(c, F, D) /\ FewEnough(Names(c))
  BY <1>2 DEF OnceNames
<1>4. HeldOnce(c)
  BY <1>1, <1>2 DEF HeldOnce
<1>5. WasRead(c, R2)
  BY <1>1, <1>2 DEF WasRead, ReadIn
<1> QED BY <1>3, <1>4, <1>5

-----------------------------------------------------------------------------
(* The actions                                                             *)

\* A session that is over, or not yet begun, satisfies all there is to know.
LEMMA EndedHolds ==
  ASSUME NEW p \in {"idle", "auth", "start"}, NEW F, NEW D, NEW R
  PROVE  Holds(p, NoAuth, NoBox, 1, {}, F, D, R)
<1>1. NoBox \in Box /\ Names(NoBox) = {}
  BY DEF NoBox, Box, Names
<1>2. NoAuth \in Auth /\ Counted(p, NoAuth)
  BY LimitsAreNumbers, Pop3AuthAssumption DEF NoAuth, Auth, Count, Counted
<1>3. FewEnough({})
  BY NoneAreFewEnough
<1>4. /\ OnceNames(NoBox, F, D) /\ WasRead(NoBox, R)
      /\ HeldOnce(NoBox) /\ Stage(p, NoBox, 1)
      /\ Excused(p, NoBox, {}, F) /\ Swept(p, NoBox, 1, F)
  BY <1>1 DEF OnceNames, WasRead, ReadIn, HeldOnce, Stage, Excused, Swept, NoBox
<1> QED BY <1>1, <1>2, <1>3, <1>4 DEF Holds, Places

\* What the invariant says of one session.
LEMMA SessionFacts ==
  ASSUME Inductive, NEW s \in Session
  PROVE  /\ Holds(pc[s], auth_state[s], box[s], pos[s], asked[s], files, delivered, fetched)
         /\ box[s] \in Box /\ pos[s] \in Nat /\ fetched \subseteq Message
         /\ pc \in [Session -> Places] /\ auth_state \in [Session -> Auth]
         /\ box \in [Session -> Box] /\ pos \in [Session -> Nat]
         /\ asked \in [Session -> SUBSET Name]
  BY DEF Inductive

\* The end of a session preserves the invariant, whatever comes of its process.
LEMMA EndsPreserves ==
  ASSUME Inductive, NEW s \in Session, NEW to \in {"idle", "start"},
         pc' = [pc EXCEPT ![s] = to], Ends(s), UNCHANGED <<files, delivered, fetched>>
  PROVE  Inductive'
<1>1. Holds(to, NoAuth, NoBox, 1, {}, files, delivered, fetched')
  BY EndedHolds
<1>2. /\ pc'[s] = to /\ auth_state'[s] = NoAuth /\ box'[s] = NoBox
      /\ pos'[s] = 1 /\ asked'[s] = {}
  BY SessionFacts DEF Ends
<1>3. StepOf(s)
  BY <1>2, SessionFacts DEF StepOf, Ends
<1>4. fetched' \subseteq Message
  BY SessionFacts
<1> QED BY <1>1, <1>2, <1>3, <1>4, QuietStep

\* Connections, losses and the ends of sessions preserve it.
LEMMA ConnectPreserves ==
  ASSUME Inductive, NEW s \in Session, Connect(s)
  PROVE  Inductive'
<1>1. /\ pc[s] = "idle" /\ pc' = [pc EXCEPT ![s] = "auth"]
      /\ UNCHANGED <<auth_state, box, pos, files, delivered, asked, fetched>>
  BY DEF Connect, Goes
<1>2. pc'[s] = "auth" /\ StepOf(s)
  BY <1>1, SessionFacts DEF StepOf
<1>3. Holds("idle", auth_state[s], box[s], pos[s], asked[s], files, delivered, fetched)
  BY <1>1, SessionFacts
<1>4. Holds("auth", auth_state[s], box[s], pos[s], asked[s], files, delivered, fetched)
  BY <1>3 DEF Holds, Places, Stage, Excused, Swept, Counted
<1> QED BY <1>1, <1>2, <1>4, SessionFacts, QuietStep

\* A command of the first stage preserves it, when its outcomes count well.
LEMMA AuthCommandPreserves ==
  ASSUME Inductive, NEW s \in Session, NEW outcomes, AuthCommand(s, outcomes),
         \A o \in outcomes : o.then = "on" => o.auth \in Auth /\ Counted("auth", o.auth)
  PROVE  Inductive'
<1>1. pc[s] = "auth" /\ UNCHANGED <<files, delivered, fetched>>
  BY DEF AuthCommand
<1>2. PICK o \in outcomes :
        \/ /\ o.then = "on"
           /\ auth_state' = [auth_state EXCEPT ![s] = o.auth]
           /\ UNCHANGED <<pc, box, pos, asked>>
        \/ o.then = "exit" /\ pc' = [pc EXCEPT ![s] = "idle"] /\ Ends(s)
        \/ o.then = "exec" /\ pc' = [pc EXCEPT ![s] = "start"] /\ Ends(s)
  BY DEF AuthCommand
<1>3. CASE o.then = "on" /\ auth_state' = [auth_state EXCEPT ![s] = o.auth]
           /\ UNCHANGED <<pc, box, pos, asked>>
  <2>1. o.auth \in Auth /\ Counted("auth", o.auth)
    BY <1>3
  <2>2. auth_state'[s] = o.auth /\ StepOf(s)
    BY <1>3, SessionFacts DEF StepOf
  <2>3. Holds(pc[s], auth_state[s], box[s], pos[s], asked[s], files, delivered, fetched)
    BY SessionFacts
  <2>4. Holds(pc[s], o.auth, box[s], pos[s], asked[s], files, delivered, fetched)
    BY <1>1, <2>1, <2>3 DEF Holds
  <2> QED BY <1>1, <1>3, <2>2, <2>4, SessionFacts, QuietStep
<1>4. CASE \E to \in {"idle", "start"} : pc' = [pc EXCEPT ![s] = to] /\ Ends(s)
  BY <1>1, <1>4, EndsPreserves
<1> QED BY <1>2, <1>3, <1>4

\* A refused login counts once, and the last that is allowed ends the session.
LEMMA FailedOutcome ==
  ASSUME NEW a \in Auth, a.refused = a.auth_count, NEW o \in Failed(a), o.then = "on"
  PROVE  o.auth \in Auth /\ Counted("auth", o.auth)
<1>1. /\ a.user \in BOOLEAN /\ a.user_count \in 0 .. AuthBound
      /\ a.auth_count \in 0 .. AuthBound /\ a.refused \in 0 .. AuthBound
      /\ AuthBound \in Nat
  BY Pop3AuthAssumption DEF Auth, Count
<1> DEFINE n == Bump(a.auth_count)
           b == [a EXCEPT !.auth_count = n, !.refused = n]
<1>2. n \in 0 .. AuthBound
  BY <1>1 DEF Bump
<1>3. o = Outcome(b, IF AuthMax > 0 /\ b.auth_count >= AuthMax THEN "exit" ELSE "on")
  BY DEF Failed
<1> HIDE DEF n
<1>4. b \in Auth /\ b.auth_count = n /\ b.refused = n
  BY <1>1, <1>2 DEF Auth, Count
<1> HIDE DEF b
<1>5. o.auth = b /\ ~ (AuthMax > 0 /\ n >= AuthMax)
  BY <1>3, <1>4 DEF Outcome
<1> QED BY <1>1, <1>2, <1>4, <1>5, LimitsAreNumbers DEF Counted

\* The commands of the first stage count well.
LEMMA AuthCommandsCount ==
  ASSUME NEW a \in Auth, Counted("auth", a),
         NEW o \in user(a) \cup pass(a) \cup auth(a), o.then = "on"
  PROVE  o.auth \in Auth /\ Counted("auth", o.auth)
<1>1. /\ a.user \in BOOLEAN /\ a.user_count \in 0 .. AuthBound
      /\ a.auth_count \in 0 .. AuthBound /\ a.refused \in 0 .. AuthBound
      /\ AuthBound \in Nat
  BY Pop3AuthAssumption DEF Auth, Count
<1>2. CASE o \in user(a)
  <2> DEFINE n == Bump(a.user_count)
  <2>1. n \in 0 .. AuthBound
    BY <1>1 DEF Bump
  <2>2. o = Outcome([[a EXCEPT !.user_count = n] EXCEPT !.user = TRUE], "on")
    BY <1>2 DEF user, Outcome
  <2> HIDE DEF n
  <2>3. o.auth = [a EXCEPT !.user_count = n, !.user = TRUE]
    BY <2>2 DEF Outcome
  <2> QED BY <1>1, <2>1, <2>3 DEF Auth, Count, Counted
<1>3. CASE o \in pass(a)
  <2>1. CASE o = Outcome(a, "on")
    BY <2>1 DEF Outcome
  <2>2. CASE o \in Failed([a EXCEPT !.user = FALSE])
    <3>1. [a EXCEPT !.user = FALSE] \in Auth
          /\ [a EXCEPT !.user = FALSE].refused = [a EXCEPT !.user = FALSE].auth_count
      BY <1>1 DEF Auth, Counted
    <3> QED BY <2>2, <3>1, FailedOutcome
  <2> QED BY <1>3, <2>1, <2>2 DEF pass, do_exec, Outcome
<1>4. CASE o \in auth(a)
  <2>1. o \in Failed(a)
    BY <1>4 DEF auth, do_exec, Outcome
  <2> QED BY <2>1, FailedOutcome DEF Counted
<1> QED BY <1>2, <1>3, <1>4

\* So they preserve the invariant.
LEMMA FirstStagePreserves ==
  ASSUME Inductive, NEW s \in Session, User(s) \/ Pass(s) \/ AuthSasl(s)
  PROVE  Inductive'
<1> DEFINE a == auth_state[s]
<1>1. pc[s] = "auth"
  BY DEF User, Pass, AuthSasl, AuthCommand
<1>2. a \in Auth /\ Counted("auth", a)
  BY <1>1, SessionFacts DEF Holds
<1>3. \A o \in user(a) \cup pass(a) \cup auth(a) :
        o.then = "on" => o.auth \in Auth /\ Counted("auth", o.auth)
  BY <1>2, AuthCommandsCount
<1>4. \E outcomes \in {user(a), pass(a), auth(a)} : AuthCommand(s, outcomes)
  BY DEF User, Pass, AuthSasl
<1> QED BY <1>3, <1>4, AuthCommandPreserves

\* A step of a session that moves on in its program and nothing else.
LEMMA MovesOnPreserves ==
  ASSUME Inductive, NEW s \in Session, NEW to \in Places, NEW k,
         pc' = [pc EXCEPT ![s] = to], asked' = [asked EXCEPT ![s] = k],
         UNCHANGED <<auth_state, box, pos, files, delivered, fetched>>,
         Holds(to, auth_state[s], box[s], pos[s], k, files, delivered, fetched)
  PROVE  Inductive'
<1>1. pc'[s] = to /\ asked'[s] = k /\ StepOf(s)
  BY SessionFacts DEF StepOf
<1> QED BY <1>1, SessionFacts, QuietStep

\* The end of a scan, and QUIT.
LEMMA MovesPreserve ==
  ASSUME Inductive, NEW s \in Session, Scanned(s) \/ Quit(s)
  PROVE  Inductive'
<1> DEFINE a == auth_state[s]
           b == box[s]
           i == pos[s]
           k == asked[s]
<1>1. Holds(pc[s], a, b, i, k, files, delivered, fetched)
  BY SessionFacts
<1>2. asked = [asked EXCEPT ![s] = k]
  BY SessionFacts
<1>3. CASE Scanned(s)
  <2>1. /\ pc[s] = "make" /\ pc' = [pc EXCEPT ![s] = "command"] /\ b.todo = <<>>
        /\ UNCHANGED <<auth_state, box, pos, files, delivered, asked, fetched>>
    BY <1>3 DEF Scanned, Goes
  <2>2. Holds("command", a, b, i, k, files, delivered, fetched)
    BY <1>1, <2>1 DEF Holds, Places, Stage, Excused, Swept, Counted
  <2> QED BY <1>2, <2>1, <2>2, MovesOnPreserves DEF Places
<1>4. CASE Quit(s)
  <2>1. /\ pc[s] = "command" /\ pc' = [pc EXCEPT ![s] = "quit"]
        /\ UNCHANGED <<auth_state, box, pos, files, delivered, asked, fetched>>
    BY <1>4 DEF Quit, Goes
  <2>2. b.msgs \in Seq(Msg) /\ i = 1
    BY <1>1, <2>1 DEF Holds, Box, Stage
  <2>3. Swept("quit", b, i, files)
    BY <2>2 DEF Swept
  <2>4. Holds("quit", a, b, i, k, files, delivered, fetched)
    BY <1>1, <2>1, <2>3 DEF Holds, Places, Stage, Excused, Counted
  <2> QED BY <1>2, <2>1, <2>4, MovesOnPreserves DEF Places
<1> QED BY <1>3, <1>4

\* A step that gives the session another box c.
LEMMA BoxStep ==
  ASSUME Inductive, NEW s \in Session, NEW to \in Places, NEW c, NEW k,
         pc' = [pc EXCEPT ![s] = to], box' = [box EXCEPT ![s] = c],
         asked' = [asked EXCEPT ![s] = k],
         UNCHANGED <<auth_state, pos, files, delivered>>,
         fetched \subseteq fetched', fetched' \subseteq Message,
         Holds(to, auth_state[s], c, pos[s], k, files, delivered, fetched')
  PROVE  Inductive'
<1>1. pc'[s] = to /\ box'[s] = c /\ asked'[s] = k /\ StepOf(s)
  BY SessionFacts DEF StepOf
<1> QED BY <1>1, SessionFacts, QuietStep

\* A scan that starts, at the start of the second stage or with RSET, preserves
\* the invariant.
LEMMA ScanStartPreserves ==
  ASSUME Inductive, NEW s \in Session, Startup(s) \/ Rset(s)
  PROVE  Inductive'
<1> DEFINE a == auth_state[s]
           b == box[s]
           i == pos[s]
           c == scan_maildir(b, files)
<1>1. Holds(pc[s], a, b, i, asked[s], files, delivered, fetched) /\ b \in Box
  BY SessionFacts
<1>2. /\ pc[s] \in {"start", "command"} /\ pc' = [pc EXCEPT ![s] = "cur"]
      /\ box' = [box EXCEPT ![s] = c]
      /\ UNCHANGED <<auth_state, pos, files, delivered, fetched>>
  BY DEF Startup, Rset, Goes, Boxes
<1>3. PICK k \in SUBSET Name : asked' = [asked EXCEPT ![s] = k]
  <2>1. asked' = [asked EXCEPT ![s] = asked[s]] \/ asked' = [asked EXCEPT ![s] = {}]
    BY SessionFacts DEF Startup, Rset
  <2>2. asked[s] \in SUBSET Name
    BY SessionFacts
  <2> QED BY <2>1, <2>2
<1>4. b.todo = <<>> /\ b.list = {} /\ i = 1 /\ i \in Nat
  BY <1>1, <1>2 DEF Holds, Stage
<1>5. files \in SUBSET Name
  BY DEF Inductive, OneNameEach
<1>6. /\ c \in Box /\ c.msgs = <<>> /\ c.todo = <<>> /\ c.list = {}
      /\ OnceNames(c, files, delivered) /\ HeldOnce(c) /\ FewEnough(Names(c))
      /\ WasRead(c, fetched)
  BY <1>1, <1>4, <1>5, ScanMaildirOutcome
<1> HIDE DEF c
<1>7. Stage("cur", c, i) /\ Excused("cur", c, k, files) /\ Swept("cur", c, i, files)
  BY <1>4, <1>6 DEF Stage, Excused, Swept
<1>8. a \in Auth /\ Counted("cur", a)
  BY <1>1, <1>2 DEF Holds, Counted
<1>9. Holds("cur", a, c, i, k, files, delivered, fetched')
  BY <1>2, <1>3, <1>4, <1>6, <1>7, <1>8 DEF Holds, Places
<1> QED BY <1>2, <1>3, <1>9, SessionFacts, BoxStep DEF Places

\* So does what it does in cur/ and new/.
LEMMA ScanPreserves ==
  ASSUME Inductive, NEW s \in Session, ReadDir(s) \/ ScanNew(s) \/ Sort(s)
  PROVE  Inductive'
<1> DEFINE a == auth_state[s]
           b == box[s]
           i == pos[s]
           k == asked[s]
<1>1. Holds(pc[s], a, b, i, k, files, delivered, fetched) /\ b \in Box
  BY SessionFacts
<1>2. asked = [asked EXCEPT ![s] = k] /\ pc = [pc EXCEPT ![s] = pc[s]]
  BY SessionFacts
<1>3. OneNameEach(files, delivered) /\ ReadIn(files, fetched) /\ files \in SUBSET Name
  BY DEF Inductive, OneNameEach
<1>4. /\ pc[s] \in {"cur", "new"}
      /\ UNCHANGED <<auth_state, pos, files, delivered, asked, fetched>>
  BY DEF ReadDir, ScanNew, Sort, Goes
<1>5. b.todo = <<>> /\ b.msgs = <<>> /\ i = 1 /\ (pc[s] = "cur" => \A f \in b.list : f.dir = "cur")
  BY <1>1, <1>4 DEF Holds, Stage
<1>6. \E to \in Places, c \in Box :
        /\ pc' = [pc EXCEPT ![s] = to] /\ box' = [box EXCEPT ![s] = c]
        /\ OnceNames(c, files, delivered) /\ HeldOnce(c) /\ FewEnough(Names(c))
        /\ WasRead(c, fetched) /\ c.msgs = <<>> /\ Stage(to, c, i) /\ to \in {"cur", "new", "make"}
  <2>1. CASE ReadDir(s)
    <3>1. PICK c \in readdir(b, pc[s], files) : box' = [box EXCEPT ![s] = c]
      BY <2>1 DEF ReadDir, Boxes
    <3>2. /\ c \in Box /\ c.msgs = <<>> /\ c.todo = <<>>
          /\ pc[s] = "cur" => \A f \in c.list : f.dir = "cur"
          /\ OnceNames(c, files, delivered) /\ HeldOnce(c) /\ FewEnough(Names(c))
          /\ WasRead(c, fetched)
      BY <1>1, <1>3, <1>4, <1>5, ReaddirOutcome DEF Holds
    <3>3. Stage(pc[s], c, i)
      BY <1>4, <1>5, <3>2 DEF Stage
    <3>4. pc' = [pc EXCEPT ![s] = pc[s]]
      BY <1>2, <2>1 DEF ReadDir
    <3> QED BY <1>4, <3>1, <3>2, <3>3, <3>4 DEF Places
  <2>2. CASE ScanNew(s)
    <3> DEFINE c == opendir(b, "new", files)
    <3>1. /\ pc' = [pc EXCEPT ![s] = "new"] /\ box' = [box EXCEPT ![s] = c]
      BY <2>2 DEF ScanNew, Goes, Boxes
    <3>2. c \in Box /\ c.msgs = b.msgs /\ c.todo = b.todo /\ c.list = b.list
      BY <1>1, <1>3, OpendirOutcome
    <3> HIDE DEF c
    <3>3. Names(c) = Names(b)
      BY <3>2 DEF Names
    <3>4. /\ OnceNames(c, files, delivered) /\ HeldOnce(c) /\ FewEnough(Names(c))
          /\ WasRead(c, fetched)
      BY <1>1, <3>2, <3>3 DEF Holds, OnceNames, HeldOnce, WasRead
    <3>5. Stage("new", c, i)
      BY <1>5, <3>2 DEF Stage
    <3> QED BY <1>5, <3>1, <3>2, <3>4, <3>5 DEF Places
  <2>3. CASE Sort(s)
    <3>1. PICK c \in sort_list(b) : box' = [box EXCEPT ![s] = c]
      BY <2>3 DEF Sort, Boxes
    <3>2. /\ c \in Box /\ c.msgs = <<>> /\ c.list = {}
          /\ OnceNames(c, files, delivered) /\ HeldOnce(c) /\ FewEnough(Names(c))
          /\ WasRead(c, fetched)
      BY <1>1, <1>5, SortOutcome DEF Holds
    <3>3. Stage("make", c, i)
      BY <1>5, <3>2 DEF Stage
    <3>4. pc' = [pc EXCEPT ![s] = "make"]
      BY <2>3 DEF Sort, Goes
    <3> QED BY <3>1, <3>2, <3>3, <3>4 DEF Places
  <2> QED BY <2>1, <2>2, <2>3
<1>7. PICK to \in Places, c \in Box :
        /\ pc' = [pc EXCEPT ![s] = to] /\ box' = [box EXCEPT ![s] = c]
        /\ OnceNames(c, files, delivered) /\ HeldOnce(c) /\ FewEnough(Names(c))
        /\ WasRead(c, fetched) /\ c.msgs = <<>> /\ Stage(to, c, i) /\ to \in {"cur", "new", "make"}
  BY <1>6
<1>8. Excused(to, c, k, files) /\ Swept(to, c, i, files)
  BY <1>7 DEF Excused, Swept
<1>9. Counted(to, a)
  BY <1>1, <1>4, <1>7 DEF Holds, Counted
<1>10. Holds(to, a, c, i, k, files, delivered, fetched')
  BY <1>1, <1>4, <1>7, <1>8, <1>9 DEF Holds
<1> QED BY <1>2, <1>4, <1>7, <1>10, SessionFacts, BoxStep

\* make_msg of the next name does.
LEMMA MakeMsgPreserves ==
  ASSUME Inductive, NEW s \in Session, MakeMsg(s)
  PROVE  Inductive'
<1> DEFINE a == auth_state[s]
           b == box[s]
           i == pos[s]
           k == asked[s]
           c == make_next(b, files)
<1>1. Holds(pc[s], a, b, i, k, files, delivered, fetched) /\ b \in Box
  BY SessionFacts
<1>2. /\ pc[s] = "make" /\ pc' = [pc EXCEPT ![s] = "make"] /\ b.todo # <<>>
      /\ box' = [box EXCEPT ![s] = c] /\ asked' = [asked EXCEPT ![s] = k]
      /\ UNCHANGED <<auth_state, pos, files, delivered, fetched>>
  BY SessionFacts DEF MakeMsg, Goes, Boxes
<1>3. b.list = {} /\ i = 1
  BY <1>1, <1>2 DEF Holds, Stage
<1>4. /\ c \in Box /\ c.list = {}
      /\ OnceNames(c, files, delivered) /\ HeldOnce(c) /\ FewEnough(Names(c))
      /\ WasRead(c, fetched)
      /\ \A j \in DOMAIN c.msgs :
           \/ j \in DOMAIN b.msgs /\ c.msgs[j] = b.msgs[j]
           \/ c.msgs[j].deleted => c.msgs[j].filename \notin files
  BY <1>1, <1>2, <1>3, MakeNextOutcome DEF Holds
<1> HIDE DEF c
<1>5. Stage("make", c, i) /\ Excused("make", c, k, files) /\ Swept("make", c, i, files)
  BY <1>1, <1>2, <1>3, <1>4 DEF Holds, Stage, Excused, Swept
<1>6. Holds("make", a, c, i, k, files, delivered, fetched')
  BY <1>1, <1>2, <1>4, <1>5 DEF Holds
<1> QED BY <1>2, <1>6, SessionFacts, BoxStep DEF Places

\* DELE excuses what it marks.
LEMMA DelePreserves ==
  ASSUME Inductive, NEW s \in Session, Dele(s)
  PROVE  Inductive'
<1>1. PICK i \in msgnum(box[s]) :
        /\ Boxes(s, {dele(box[s], i)})
        /\ asked' = [asked EXCEPT ![s] = @ \cup {box[s].msgs[i].filename}]
  BY DEF Dele
<1> DEFINE a == auth_state[s]
           b == box[s]
           p == pos[s]
           m == [b.msgs[i] EXCEPT !.deleted = TRUE]
           k == asked[s] \cup {b.msgs[i].filename}
           c == dele(b, i)
<1>2. Holds(pc[s], a, b, p, asked[s], files, delivered, fetched) /\ b \in Box
  BY SessionFacts
<1>3. /\ pc[s] = "command" /\ pc' = [pc EXCEPT ![s] = "command"]
      /\ box' = [box EXCEPT ![s] = c] /\ asked' = [asked EXCEPT ![s] = k]
      /\ UNCHANGED <<auth_state, pos, files, delivered, fetched>>
  BY <1>1 DEF Dele, Goes, Boxes
<1>4. /\ b.msgs \in Seq(Msg) /\ i \in DOMAIN b.msgs /\ b.msgs[i] \in Msg
      /\ b.del_bytes \in Nat /\ b.del_count \in Nat
  BY <1>2 DEF msgnum, Box
<1>5. m \in Msg /\ m.filename = b.msgs[i].filename /\ m.read = b.msgs[i].read
      /\ b.msgs[i].size \in Nat /\ b.msgs[i].filename \in Name
  BY <1>4 DEF Msg, Name
<1>6. /\ [b.msgs EXCEPT ![i] = m] \in Seq(Msg) /\ b.del_bytes + b.msgs[i].size \in Nat
      /\ b.del_count + 1 \in Nat
  <2> HIDE DEF m
  <2>1. [b.msgs EXCEPT ![i] = m] \in Seq(Msg)
    BY <1>4, <1>5
  <2> HIDE DEF b
  <2> QED BY <1>4, <1>5, <2>1
<1>7. /\ c \in Box /\ c.list = b.list /\ c.todo = b.todo
      /\ c.msgs = [b.msgs EXCEPT ![i] = m]
  <2>1. c = [b EXCEPT !.del_bytes = b.del_bytes + b.msgs[i].size, !.del_count = b.del_count + 1,
                      !.msgs = [b.msgs EXCEPT ![i] = m]]
    BY <1>2 DEF dele, Box
  <2> HIDE DEF m, c
  <2> QED BY <1>2, <1>4, <1>6, <2>1 DEF Box
<1> HIDE DEF m, c
<1>8. OnceNames(c, files, delivered) /\ HeldOnce(c) /\ FewEnough(Names(c)) /\ WasRead(c, fetched)
  <2>1. OnceNames(b, files, delivered) /\ HeldOnce(b) /\ FewEnough(Names(b)) /\ WasRead(b, fetched)
    BY <1>2 DEF Holds
  <2> HIDE DEF b
  <2> QED BY ONLY <1>2, <1>4, <1>5, <1>7, <2>1, MarkOutcome
<1>9. k \in SUBSET Name
  BY <1>5, SessionFacts
<1>10. \A j \in DOMAIN c.msgs : c.msgs[j] = b.msgs[j] \/ c.msgs[j].filename \in k
  BY <1>4, <1>5, <1>7
<1>11. DOMAIN c.msgs = DOMAIN b.msgs
  BY <1>4, <1>7
<1>12. Excused("command", c, k, files)
  BY <1>2, <1>3, <1>10, <1>11 DEF Holds, Excused
<1>13. Stage("command", c, p) /\ Swept("command", c, p, files)
  BY <1>2, <1>3, <1>7 DEF Holds, Stage, Swept
<1>14. Holds("command", a, c, p, k, files, delivered, fetched')
  BY <1>2, <1>3, <1>7, <1>8, <1>9, <1>12, <1>13 DEF Holds
<1> QED BY <1>3, <1>14, SessionFacts, BoxStep DEF Places

\* RETR marks what it has fetched.
LEMMA RetrPreserves ==
  ASSUME Inductive, NEW s \in Session, Retr(s)
  PROVE  Inductive'
<1>1. PICK i \in msgnum(box[s]) :
        /\ Boxes(s, {top(box[s], i)})
        /\ fetched' = fetched \cup {box[s].msgs[i].filename.id}
  BY DEF Retr
<1> DEFINE a == auth_state[s]
           b == box[s]
           p == pos[s]
           k == asked[s]
           m == [b.msgs[i] EXCEPT !.read = TRUE]
           c == top(b, i)
<1>2. Holds(pc[s], a, b, p, k, files, delivered, fetched) /\ b \in Box
  BY SessionFacts
<1>3. /\ pc[s] = "command" /\ pc' = [pc EXCEPT ![s] = "command"]
      /\ box' = [box EXCEPT ![s] = c] /\ asked' = [asked EXCEPT ![s] = k]
      /\ UNCHANGED <<auth_state, pos, files, delivered>>
  BY <1>1, SessionFacts DEF Retr, Goes, Boxes
<1>4. /\ b.msgs \in Seq(Msg) /\ i \in DOMAIN b.msgs /\ b.msgs[i] \in Msg
  BY <1>2 DEF msgnum, Box
<1>5. m \in Msg /\ m.filename = b.msgs[i].filename /\ m.deleted = b.msgs[i].deleted
      /\ b.msgs[i].filename.id \in Message
  BY <1>4 DEF Msg, Name
<1>6. [b.msgs EXCEPT ![i] = m] \in Seq(Msg)
  BY <1>4, <1>5
<1>7. /\ c \in Box /\ c.list = b.list /\ c.todo = b.todo
      /\ c.msgs = [b.msgs EXCEPT ![i] = m]
  <2>1. c = [b EXCEPT !.msgs = [b.msgs EXCEPT ![i] = m]]
    BY <1>2 DEF top, Box
  <2> HIDE DEF m, c
  <2> QED BY <1>2, <1>6, <2>1 DEF Box
<1> HIDE DEF m, c
<1>8. /\ fetched \subseteq fetched' /\ fetched' \subseteq Message
      /\ m.filename.id \in fetched'
  BY <1>1, <1>5, SessionFacts
<1>9. OnceNames(c, files, delivered) /\ HeldOnce(c) /\ FewEnough(Names(c)) /\ WasRead(c, fetched')
  <2>1. OnceNames(b, files, delivered) /\ HeldOnce(b) /\ FewEnough(Names(b)) /\ WasRead(b, fetched)
    BY <1>2 DEF Holds
  <2> HIDE DEF b
  <2> QED BY ONLY <1>2, <1>4, <1>5, <1>7, <1>8, <2>1, MarkOutcome
<1>10. /\ DOMAIN c.msgs = DOMAIN b.msgs
       /\ \A j \in DOMAIN c.msgs : /\ c.msgs[j].deleted = b.msgs[j].deleted
                                   /\ c.msgs[j].filename = b.msgs[j].filename
  BY <1>4, <1>5, <1>7
<1>11. Excused("command", c, k, files)
  BY <1>2, <1>3, <1>10 DEF Holds, Excused
<1>12. Stage("command", c, p) /\ Swept("command", c, p, files)
  BY <1>2, <1>3, <1>7 DEF Holds, Stage, Swept
<1>13. Holds("command", a, c, p, k, files, delivered, fetched')
  BY <1>2, <1>3, <1>7, <1>9, <1>11, <1>12 DEF Holds
<1> QED BY <1>3, <1>8, <1>13, SessionFacts, BoxStep DEF Places

\* What the invariant says when QUIT comes to a message of session s.
LEMMA QuitMsgFacts ==
  ASSUME Inductive, NEW s \in Session, QuitMsg(s)
  PROVE  LET m == box[s].msgs[pos[s]]
         IN  /\ pc[s] = "quit" /\ m \in Msg /\ files' = quit_msg(m, files)
             /\ OneNameEach(files, delivered)
             /\ m.filename \in Names(box[s])
             /\ \A g \in files : g.id = m.filename.id => Later(m.filename, g)
             /\ m.deleted => m.filename \in asked[s] \/ m.filename \notin files
             /\ m.read \/ m.filename.info = "2S" => m.filename.id \in fetched
<1> DEFINE b == box[s]
           i == pos[s]
           m == b.msgs[i]
<1>1. /\ pc[s] = "quit" /\ i <= Len(b.msgs) /\ files' = quit_msg(m, files)
  BY DEF QuitMsg, Goes
<1>2. Holds(pc[s], auth_state[s], b, i, asked[s], files, delivered, fetched)
      /\ b \in Box /\ i \in Nat
  BY SessionFacts
<1>3. b.msgs \in Seq(Msg) /\ i > 0
  BY <1>2 DEF Holds, Stage, Box
<1>4. i \in DOMAIN b.msgs /\ m \in Msg
  BY <1>1, <1>2, <1>3
<1>5. m.filename \in Names(b)
  BY <1>4 DEF Names
<1>6. \A g \in files : g.id = m.filename.id => Later(m.filename, g)
  BY <1>2, <1>5 DEF Holds, OnceNames
<1>7. m.deleted => m.filename \in asked[s] \/ m.filename \notin files
  BY <1>1, <1>2, <1>4 DEF Holds, Excused
<1>8. m.read \/ m.filename.info = "2S" => m.filename.id \in fetched
  BY <1>2, <1>4, <1>5 DEF Holds, WasRead, ReadIn
<1>9. OneNameEach(files, delivered)
  BY DEF Inductive
<1> QED BY <1>1, <1>4, <1>5, <1>6, <1>7, <1>8, <1>9

\* QUIT, message by message, preserves the invariant.
LEMMA QuitMsgPreserves ==
  ASSUME Inductive, NEW s \in Session, QuitMsg(s)
  PROVE  Inductive'
<1> DEFINE a == auth_state[s]
           b == box[s]
           i == pos[s]
           k == asked[s]
           m == b.msgs[i]
<1>1. /\ pc[s] = "quit" /\ m \in Msg /\ files' = quit_msg(m, files)
      /\ OneNameEach(files, delivered)
      /\ \A g \in files : g.id = m.filename.id => Later(m.filename, g)
      /\ m.read \/ m.filename.info = "2S" => m.filename.id \in fetched
  BY QuitMsgFacts
<1>2. /\ pc' = [pc EXCEPT ![s] = "quit"] /\ pos' = [pos EXCEPT ![s] = i + 1]
      /\ UNCHANGED <<auth_state, box, delivered, asked, fetched>>
  BY DEF QuitMsg, Goes
<1>3. /\ Holds("quit", a, b, i, k, files, delivered, fetched)
      /\ b \in Box /\ i \in Nat /\ fetched \subseteq Message
  BY <1>1, SessionFacts
<1>4. /\ OneNameEach(files', delivered)
      /\ Evolves(files, delivered, files', delivered)
      /\ m.deleted => m.filename \notin files'
      /\ \A g \in files' : g \in files \/ (g.id = m.filename.id /\ (g.info = "2S" =>
                                             m.read \/ m.filename.info = "2S"))
  <2> HIDE DEF m
  <2> QED BY ONLY <1>1, QuitMsgOutcome
<1>5. ReadIn(files', fetched')
  BY <1>1, <1>2, <1>4 DEF Inductive, ReadIn
<1>6. Holds("quit", a, b, i, k, files', delivered, fetched)
  <2>1. files \subseteq Name /\ files' \subseteq Name
    BY <1>1, <1>4 DEF OneNameEach
  <2> HIDE DEF a, b, i, k
  <2> QED BY <1>3, <1>4, <2>1, OthersHold
<1>7. Holds("quit", a, b, i + 1, k, files', delivered', fetched')
  <2>1. b.msgs \in Seq(Msg)
    BY <1>3 DEF Box
  <2>2. \A j \in DOMAIN b.msgs : j < i + 1 /\ b.msgs[j].deleted => b.msgs[j].filename \notin files'
    <3> SUFFICES ASSUME NEW j \in DOMAIN b.msgs, j < i + 1, b.msgs[j].deleted
                 PROVE  b.msgs[j].filename \notin files'
      OBVIOUS
    <3>1. j < i \/ j = i
      BY <1>3, <2>1
    <3>2. CASE j < i
      BY <1>6, <3>2 DEF Holds, Swept
    <3>3. CASE j = i
      BY <1>4, <3>3
    <3> QED BY <3>1, <3>2, <3>3
  <2>3. Swept("quit", b, i + 1, files')
    BY <2>2 DEF Swept
  <2>4. i + 1 \in Nat /\ i + 1 > 0
    BY <1>3
  <2> HIDE DEF a, b, i, k
  <2> QED BY <1>2, <1>6, <2>3, <2>4 DEF Holds, Stage
<1>8. /\ pc'[s] = "quit" /\ auth_state'[s] = a /\ box'[s] = b /\ pos'[s] = i + 1
      /\ asked'[s] = k /\ StepOf(s)
  BY <1>1, <1>2, SessionFacts DEF StepOf
<1> QED BY <1>2, <1>3, <1>4, <1>5, <1>7, <1>8, SessionStep

\* So do the end of QUIT and the loss of a session.
LEMMA SessionEndsPreserves ==
  ASSUME Inductive, NEW s \in Session, Lost(s) \/ QuitDone(s)
  PROVE  Inductive'
<1>1. /\ pc' = [pc EXCEPT ![s] = "idle"] /\ Ends(s)
      /\ UNCHANGED <<files, delivered, fetched>>
  BY DEF Lost, QuitDone, Goes
<1> QED BY <1>1, EndsPreserves

-----------------------------------------------------------------------------
(* The theorems                                                            *)

\* The invariant holds at first.
LEMMA InitEstablishes ==
  ASSUME Init
  PROVE  Inductive
<1>1. /\ pc = [s \in Session |-> "idle"] /\ auth_state = [s \in Session |-> NoAuth]
      /\ box = [s \in Session |-> NoBox] /\ pos = [s \in Session |-> 1]
      /\ asked = [s \in Session |-> {}]
      /\ files \in FirstFiles /\ delivered = {f.id : f \in files}
      /\ fetched = {f.id : f \in {g \in files : g.info = "2S"}}
  BY DEF Init
<1>2. /\ files \subseteq Name /\ IsFiniteSet(files)
      /\ \A f, g \in files : f.id = g.id => f = g
  BY <1>1, Pop3Assumption
<1>3. \A f \in files : f.id \in Message
  BY <1>2 DEF Name
<1>4. OneNameEach(files, delivered) /\ fetched \subseteq Message /\ ReadIn(files, fetched)
  BY <1>1, <1>2, <1>3 DEF OneNameEach, ReadIn
<1>5. Holds("idle", NoAuth, NoBox, 1, {}, files, delivered, fetched)
  BY EndedHolds
<1>6. \A s \in Session :
        Holds(pc[s], auth_state[s], box[s], pos[s], asked[s], files, delivered, fetched)
  BY <1>1, <1>5
<1>7. "idle" \in Places /\ NoAuth \in Auth /\ NoBox \in Box
  BY <1>5 DEF Holds
<1> QED BY <1>1, <1>4, <1>6, <1>7 DEF Inductive

\* Every step preserves it.
LEMMA NextPreserves ==
  ASSUME Inductive, [Next]_vars
  PROVE  Inductive'
<1>1. ASSUME NEW m \in Message, Deliver(m)
      PROVE  Inductive'
  BY <1>1, DeliverPreserves
<1>2. ASSUME NEW s \in Session, Connect(s)
      PROVE  Inductive'
  BY <1>2, ConnectPreserves
<1>3. ASSUME NEW s \in Session, User(s) \/ Pass(s) \/ AuthSasl(s)
      PROVE  Inductive'
  BY <1>3, FirstStagePreserves
<1>4. ASSUME NEW s \in Session, Scanned(s) \/ Quit(s)
      PROVE  Inductive'
  BY <1>4, MovesPreserve
<1>5. ASSUME NEW s \in Session,
             Startup(s) \/ Rset(s) \/ ReadDir(s) \/ ScanNew(s) \/ Sort(s)
      PROVE  Inductive'
  BY <1>5, ScanStartPreserves, ScanPreserves
<1>6. ASSUME NEW s \in Session, MakeMsg(s)
      PROVE  Inductive'
  BY <1>6, MakeMsgPreserves
<1>7. ASSUME NEW s \in Session, Dele(s)
      PROVE  Inductive'
  BY <1>7, DelePreserves
<1>8. ASSUME NEW s \in Session, Retr(s)
      PROVE  Inductive'
  BY <1>8, RetrPreserves
<1>9. ASSUME NEW s \in Session, QuitMsg(s)
      PROVE  Inductive'
  BY <1>9, QuitMsgPreserves
<1>10. ASSUME NEW s \in Session, Lost(s) \/ QuitDone(s)
       PROVE  Inductive'
  BY <1>10, SessionEndsPreserves
<1>11. CASE UNCHANGED vars
  BY <1>11 DEF vars, Inductive
<1> QED BY <1>1, <1>2, <1>3, <1>4, <1>5, <1>6, <1>7, <1>8, <1>9, <1>10, <1>11 DEF Next

(***************************************************************************)
(* For any messages, sessions, limits and first state of the maildir, and  *)
(* whatever interleaving of scans, QUITs, deliveries and lost sessions.    *)
(***************************************************************************)
THEOREM InductiveAlways == Spec => []Inductive
<1>1. Init => Inductive
  BY InitEstablishes
<1>2. Inductive /\ [Next]_vars => Inductive'
  BY NextPreserves
<1> QED BY <1>1, <1>2, PTL DEF Spec

\* Every session, and the maildir, is always well typed.
THEOREM TypeCorrect == Spec => []TypeOK
<1>1. Inductive => TypeOK
  <2> SUFFICES ASSUME Inductive PROVE TypeOK
    OBVIOUS
  <2>1. ASSUME NEW s \in Session
        PROVE  /\ box[s].there \subseteq Name
               /\ box[s].list \subseteq Name /\ box[s].todo \in Seq(Name)
               /\ box[s].msgs \in Seq(Msg)
               /\ box[s].del_count \in Nat /\ box[s].del_bytes \in Nat /\ box[s].msg_bytes \in Nat
    BY SessionFacts DEF Box
  <2> QED BY <2>1 DEF Inductive, OneNameEach, TypeOK, Places
<1> QED BY <1>1, InductiveAlways, PTL

\* No listing names a message twice, but under its names before and after a QUIT
\* in another session flagged it, whatever the messages, their UIDs and the limits.
THEOREM NoDuplicates == Spec => []ListedOnce
<1>1. Inductive => ListedOnce
  <2> SUFFICES ASSUME Inductive PROVE ListedOnce
    OBVIOUS
  <2>1. ASSUME NEW s \in Session,
               NEW i \in msgnum(box[s]), NEW j \in msgnum(box[s]), i # j,
               box[s].msgs[i].filename.id = box[s].msgs[j].filename.id
        PROVE  \/ Flagged(box[s].msgs[i].filename, box[s].msgs[j].filename)
               \/ Flagged(box[s].msgs[j].filename, box[s].msgs[i].filename)
    <3>1. i \in DOMAIN box[s].msgs /\ j \in DOMAIN box[s].msgs /\ HeldOnce(box[s])
      BY SessionFacts DEF msgnum, Holds
    <3>2. /\ box[s].msgs[i].filename \in Names(box[s])
          /\ box[s].msgs[j].filename \in Names(box[s])
      BY <3>1 DEF Names
    <3> QED BY <2>1, <3>1, <3>2 DEF HeldOnce
  <2> QED BY <2>1 DEF ListedOnce, Flagged
<1> QED BY <1>1, InductiveAlways, PTL

\* When QUIT is done, what was deleted is gone from under the name it had.
THEOREM DeletedIsGoneAlways == Spec => []DeletedIsGone
<1>1. Inductive => DeletedIsGone
  <2> SUFFICES ASSUME Inductive, NEW s \in Session, pc[s] = "quit", pos[s] > Len(box[s].msgs),
                      NEW i \in DOMAIN box[s].msgs, box[s].msgs[i].deleted
               PROVE  box[s].msgs[i].filename \notin files
    BY DEF DeletedIsGone
  <2>1. Swept("quit", box[s], pos[s], files) /\ box[s].msgs \in Seq(Msg) /\ pos[s] \in Nat
    BY SessionFacts DEF Holds, Box
  <2>2. i < pos[s]
    BY <2>1
  <2> QED BY <2>1, <2>2 DEF Swept
<1> QED BY <1>1, InductiveAlways, PTL

\* Only mail that some client fetched is marked as read.
THEOREM ReadWasFetchedAlways == Spec => []ReadWasFetched
<1>1. Inductive => ReadWasFetched
  BY DEF Inductive, ReadIn, ReadWasFetched
<1> QED BY <1>1, InductiveAlways, PTL

\* No client goes on guessing passwords beyond the limit.
THEOREM FailuresLimited == Spec => []FailuresAreLimited
<1>1. Inductive => FailuresAreLimited
  BY SessionFacts DEF Holds, Counted, FailuresAreLimited
<1> QED BY <1>1, InductiveAlways, PTL


\* Listed entries, each name held once, are at most as many as their names.
LEMMA ListedAreFew ==
  ASSUME NEW b \in Box, HeldOnce(b), NEW J \in SUBSET DOMAIN b.msgs,
         NEW T, IsFiniteSet(T), \A j \in J : b.msgs[j].filename \in T
  PROVE  IsFiniteSet(J) /\ Cardinality(J) <= Cardinality(T)
<1> DEFINE g == [j \in J |-> b.msgs[j].filename]
<1>1. g \in [J -> T]
  OBVIOUS
<1>2. \A i, j \in J : g[i] = g[j] => i = j
  BY DEF HeldOnce
<1>3. g \in Injection(J, T)
  BY <1>1, <1>2 DEF Injection, IsInjective
<1> HIDE DEF g
<1> QED BY <1>3, FS_Injection

\* Each limit holds of each listing, whatever was in the maildir.
THEOREM LimitsAlwaysHold == Spec => []LimitsHold
<1>1. Inductive => LimitsHold
  <2> SUFFICES ASSUME Inductive, NEW s \in Session
               PROVE  LET InDir(d) == Cardinality({i \in DOMAIN box[s].msgs :
                                                     box[s].msgs[i].filename.dir = d})
                      IN  /\ MaxCount > 0 => Len(box[s].msgs) <= MaxCount
                          /\ MaxCur > 0 => InDir("cur") <= MaxCur
                          /\ MaxNew > 0 => InDir("new") <= MaxNew
    BY DEF LimitsHold
  <2> DEFINE b == box[s]
             S == Names(b)
             J(d) == {i \in DOMAIN b.msgs : b.msgs[i].filename.dir = d}
  <2>1. b \in Box /\ HeldOnce(b) /\ FewEnough(S)
    BY SessionFacts DEF Holds
  <2>2. IsFiniteSet(S) /\ \A j \in DOMAIN b.msgs : b.msgs[j].filename \in S
    BY <2>1 DEF FewEnough, Names
  <2>3. Cardinality(DOMAIN b.msgs) <= Cardinality(S) /\ Cardinality(S) \in Nat
    <3> HIDE DEF b, S
    <3> QED BY <2>1, <2>2, ListedAreFew, FS_CardinalityType
  <2>4. Len(b.msgs) = Cardinality(DOMAIN b.msgs) /\ Len(b.msgs) \in Nat
    <3>1. b.msgs \in Seq(Msg)
      BY <2>1 DEF Box
    <3>2. DOMAIN b.msgs = 1 .. Len(b.msgs) /\ Len(b.msgs) \in Nat
      BY <3>1
    <3>3. Cardinality(1 .. Len(b.msgs)) = Len(b.msgs)
      BY <3>2, FS_Interval
    <3> QED BY <3>2, <3>3
  <2>5. ASSUME NEW d
        PROVE  /\ Cardinality(J(d)) <= Cardinality(Within(d, S))
               /\ Cardinality(Within(d, S)) \in Nat /\ Cardinality(J(d)) \in Nat
    <3>1. IsFiniteSet(Within(d, S)) /\ Cardinality(Within(d, S)) \in Nat
      BY <2>2, FS_Subset, FS_CardinalityType DEF Within
    <3>2. J(d) \subseteq DOMAIN b.msgs /\ \A j \in J(d) : b.msgs[j].filename \in Within(d, S)
      BY <2>2 DEF Within
    <3> HIDE DEF b, S, J
    <3> QED BY <2>1, <3>1, <3>2, ListedAreFew, FS_CardinalityType
  <2> QED BY <2>1, <2>3, <2>4, <2>5, LimitsAreNumbers DEF FewEnough
<1> QED BY <1>1, InductiveAlways, PTL

-----------------------------------------------------------------------------
(* What no step does                                                       *)

\* Every step lets names only go, move on, or come with mail that is new.
LEMMA NextEvolves ==
  ASSUME Inductive, [Next]_vars
  PROVE  Evolves(files, delivered, files', delivered')
<1>1. ASSUME NEW m \in Message, Deliver(m)
      PROVE  Evolves(files, delivered, files', delivered')
  BY <1>1 DEF Deliver, Evolves, Later
<1>2. ASSUME NEW s \in Session, QuitMsg(s)
      PROVE  Evolves(files, delivered, files', delivered')
  <2> DEFINE m == box[s].msgs[pos[s]]
  <2>1. /\ m \in Msg /\ files' = quit_msg(m, files) /\ OneNameEach(files, delivered)
        /\ \A g \in files : g.id = m.filename.id => Later(m.filename, g)
    BY <1>2, QuitMsgFacts
  <2>2. delivered' = delivered
    BY <1>2 DEF QuitMsg
  <2> HIDE DEF m
  <2>3. Evolves(files, delivered, quit_msg(m, files), delivered)
    BY ONLY <2>1, QuitMsgOutcome
  <2> QED BY <2>1, <2>2, <2>3
<1>3. CASE UNCHANGED <<files, delivered>>
  BY <1>3, NothingEvolves
<1>4. \/ \E m \in Message : Deliver(m)
      \/ \E s \in Session : QuitMsg(s)
      \/ UNCHANGED <<files, delivered>>
  BY DEF Next, vars, Connect, Lost, User, Pass, AuthSasl, AuthCommand, Startup, ReadDir,
         ScanNew, Sort, MakeMsg, Scanned, Dele, Retr, Rset, Quit, QuitDone
<1> QED BY <1>1, <1>2, <1>3, <1>4

\* A file's name moves on, from new/ to cur/ and from unread to read, and no
\* step brings an older one back.
THEOREM NamesOnlyMoveOn == Spec => NamesNeverReturn
<1>1. Inductive /\ [Next]_vars =>
        [\A f \in files, g \in files' : f.id = g.id =>
           \/ f = g
           \/ /\ g.dir = "cur"
              /\ g.info = f.info \/ (f.info \in {"none", "2"} /\ g.info = "2S")]_vars
  <2> SUFFICES ASSUME Inductive, [Next]_vars, NEW f \in files, NEW g \in files', f.id = g.id
               PROVE  Later(f, g)
    BY DEF Later
  <2>1. OneNameEach(files, delivered) /\ Evolves(files, delivered, files', delivered')
    BY NextEvolves DEF Inductive
  <2> QED BY <2>1 DEF OneNameEach, Evolves
<1> QED BY <1>1, InductiveAlways, PTL DEF Spec, NamesNeverReturn

(***************************************************************************)
(* Mail goes only in the QUIT of a session that was told this entry is     *)
(* deleted: what make_msg took for deleted was gone from under that name   *)
(* for good, and what a scan saw twice has only one of its names left.     *)
(***************************************************************************)
THEOREM MailIsKept == Spec => NoMailIsLost
<1>1. Inductive /\ [Next]_vars =>
        [\A f \in files :
           \/ \E g \in files' : g.id = f.id
           \/ \E s \in Session : pc[s] = "quit" /\ f \in asked[s]]_vars
  <2> SUFFICES ASSUME Inductive, [Next]_vars, NEW f \in files
               PROVE  \/ \E g \in files' : g.id = f.id
                      \/ \E s \in Session : pc[s] = "quit" /\ f \in asked[s]
    OBVIOUS
  <2>1. ASSUME NEW s \in Session, QuitMsg(s)
        PROVE  (\E g \in files' : g.id = f.id) \/ (pc[s] = "quit" /\ f \in asked[s])
    <3> DEFINE m == box[s].msgs[pos[s]]
    <3>1. /\ pc[s] = "quit" /\ m \in Msg /\ files' = quit_msg(m, files)
          /\ OneNameEach(files, delivered)
          /\ \A g \in files : g.id = m.filename.id => Later(m.filename, g)
          /\ m.deleted => m.filename \in asked[s] \/ m.filename \notin files
      BY <2>1, QuitMsgFacts
    <3> HIDE DEF m
    <3>2. (\E g \in quit_msg(m, files) : g.id = f.id) \/ (m.deleted /\ f = m.filename)
      BY ONLY <3>1, f \in files, QuitMsgOutcome
    <3> QED BY <3>1, <3>2
  <2>2. files \subseteq files' \/ \E s \in Session : QuitMsg(s)
    BY DEF Next, vars, Deliver, Connect, Lost, User, Pass, AuthSasl, AuthCommand, Startup,
           ReadDir, ScanNew, Sort, MakeMsg, Scanned, Dele, Retr, Rset, Quit, QuitDone
  <2> QED BY <2>1, <2>2
<1> QED BY <1>1, InductiveAlways, PTL DEF Spec, NoMailIsLost

-----------------------------------------------------------------------------
(* The totals of a session                                                 *)

\* What LIST says of entry i, and the running totals of that.
Listed(b, i) == IF i \in msgnum(b) THEN b.msgs[i].size ELSE 0

Running(b, g) ==
  /\ g \in [0 .. Len(b.msgs) -> Int]
  /\ g[0] = 0 /\ \A i \in 1 .. Len(b.msgs) : g[i] = g[i - 1] + Listed(b, i)

\* The entries that are marked because the client (k) asked.
Told(b, k) == {i \in DOMAIN b.msgs : b.msgs[i].deleted /\ b.msgs[i].filename \in k}

BytesAgree(b) == \E g : Running(b, g) /\ b.msg_bytes = b.del_bytes + g[Len(b.msgs)]

\* The totals at point p of a session.  The start of a scan clears what the client
\* asked for, its end the counts; a scan that finds nothing leaves them.
Agrees(p, b, k) ==
  /\ p \in {"cur", "new"} => b.msg_bytes = 0
  /\ p \in {"idle", "auth", "start", "cur", "new", "make"} => k = {}
  /\ p \in {"make", "command", "quit"} /\ (b.todo # <<>> \/ b.msgs # <<>>) =>
       BytesAgree(b) /\ b.del_count = Cardinality(Told(b, k))

Agreeing == \A s \in Session : Agrees(pc[s], box[s], asked[s])

\* What is true at 0, and of each number after one it is true of.
LEMMA Upwards ==
  ASSUME NEW n \in Nat, NEW P \in SUBSET Nat, 0 \in P,
         \A i \in 1 .. n : i - 1 \in P => i \in P
  PROVE  n \in P
<1> DEFINE Bad == {i \in 0 .. n : i \notin P}
<1>1. SUFFICES ASSUME n \notin P PROVE FALSE
  OBVIOUS
<1>2. n \in Bad /\ Bad \in SUBSET Nat
  BY <1>1
<1>3. PICK x \in Bad : \A y \in Bad : ~ (<<y, x>> \in OpToRel(<, Nat))
  BY <1>2, NatLessThanWellFounded, WFMin
<1>4. x \in 1 .. n /\ x \notin P
  <2>1. x \in 0 .. n /\ x \notin P
    BY <1>3
  <2>2. x # 0
    BY <2>1
  <2> QED BY ONLY <2>1, <2>2
<1>5. x - 1 \in P
  <2>1. SUFFICES ASSUME x - 1 \notin P PROVE FALSE
    OBVIOUS
  <2>2. x - 1 \in 0 .. n /\ x - 1 \in Nat /\ x \in Nat /\ x - 1 < x
    BY <1>4
  <2>3. x - 1 \in Bad /\ <<x - 1, x>> \in OpToRel(<, Nat)
    BY <2>1, <2>2 DEF OpToRel
  <2> QED BY <1>3, <2>3
<1> QED BY <1>4, <1>5

\* An entry counts with a whole number.
LEMMA ListedType ==
  ASSUME NEW b \in Box
  PROVE  /\ Len(b.msgs) \in Nat /\ DOMAIN b.msgs = 1 .. Len(b.msgs)
         /\ b.msgs \in Seq(Msg)
         /\ \A i \in 1 .. Len(b.msgs) : b.msgs[i] \in Msg /\ Listed(b, i) \in Nat
<1>1. b.msgs \in Seq(Msg)
  BY DEF Box
<1>2. \A i \in 1 .. Len(b.msgs) : b.msgs[i] \in Msg
  BY <1>1
<1>3. \A m \in Msg : m.size \in Nat
  BY DEF Msg
<1> QED BY <1>1, <1>2, <1>3 DEF Listed

\* The running totals end in the total.
LEMMA RunningEnds ==
  ASSUME NEW b \in Box, NEW g, Running(b, g)
  PROVE  Total(b) = g[Len(b.msgs)]
<1> DEFINE n == Len(b.msgs)
           e(f) == [i \in 0 .. n |-> IF i = 0 THEN 0
                      ELSE f[i - 1] + (IF i \in DOMAIN list(b) THEN list(b)[i] ELSE 0)]
           t == CHOOSE f : f = e(f)
<1>1. n \in Nat /\ \A i \in 1 .. n : Listed(b, i) \in Nat
  BY ListedType
<1>2. \A i \in 1 .. n : (IF i \in DOMAIN list(b) THEN list(b)[i] ELSE 0) = Listed(b, i)
  BY DEF list, Listed
<1>3. Total(b) = t[n]
  BY DEF Total
<1>4. /\ g \in [0 .. n -> Int] /\ g[0] = 0
      /\ \A i \in 1 .. n : g[i] = g[i - 1] + Listed(b, i)
  BY DEF Running
<1>5. g = e(g)
  <2>1. \A i \in 0 .. n : i # 0 => i \in 1 .. n
    BY <1>1
  <2>2. \A i \in 0 .. n : g[i] = e(g)[i]
    BY <1>2, <1>4, <2>1
  <2> QED BY <1>4, <2>2
<1>6. t = e(t)
  BY <1>5
<1> HIDE DEF t
<1> DEFINE P == {i \in 0 .. n : t[i] = g[i]}
<1>7. t[0] = 0 /\ \A i \in 1 .. n : t[i] = t[i - 1] + Listed(b, i)
  <2>1. 0 \in 0 .. n /\ \A i \in 1 .. n : i \in 0 .. n /\ i # 0
    BY <1>1
  <2>2. \A i \in 0 .. n : t[i] = e(t)[i]
    BY <1>6
  <2> QED BY <1>2, <2>1, <2>2
<1>8. P \in SUBSET Nat /\ 0 \in P
  BY <1>1, <1>4, <1>7
<1>9. ASSUME NEW i \in 1 .. n, i - 1 \in P
      PROVE  i \in P
  BY <1>1, <1>4, <1>7, <1>9
<1> HIDE DEF P
<1>10. n \in P
  BY <1>1, <1>8, <1>9, Upwards
<1> QED BY <1>3, <1>10 DEF P

\* A session without messages has nothing to add up.
LEMMA NoneToAdd ==
  ASSUME NEW b \in Box, b.msgs = <<>>, b.msg_bytes = 0, b.del_bytes = 0, b.del_count = 0, NEW k
  PROVE  BytesAgree(b) /\ b.del_count = Cardinality(Told(b, k))
<1> DEFINE g == [i \in 0 .. 0 |-> 0]
<1>1. Len(b.msgs) = 0 /\ DOMAIN b.msgs = {}
  OBVIOUS
<1>2. g \in [0 .. 0 -> Int] /\ g[0] = 0 /\ \A i \in 1 .. 0 : FALSE
  OBVIOUS
<1> HIDE DEF g
<1>3. Running(b, g)
  BY <1>1, <1>2 DEF Running
<1>4. b.msg_bytes = b.del_bytes + g[Len(b.msgs)]
  BY <1>1, <1>2
<1>5. Told(b, k) = {}
  BY <1>1 DEF Told
<1> QED BY <1>3, <1>4, <1>5, FS_EmptySet DEF BytesAgree

\* One more entry m adds its size, or is gone and has none.
LEMMA AppendAgrees ==
  ASSUME NEW b \in Box, NEW c \in Box, NEW m \in Msg, BytesAgree(b),
         c.msgs = Append(b.msgs, m), m.deleted => m.size = 0,
         c.msg_bytes = b.msg_bytes + m.size, c.del_bytes = b.del_bytes
  PROVE  BytesAgree(c)
<1> DEFINE n == Len(b.msgs)
<1>1. n \in Nat /\ b.msgs \in Seq(Msg) /\ DOMAIN b.msgs = 1 .. n
  BY ListedType
<1>2. m.size \in Nat /\ m.deleted \in BOOLEAN
  BY DEF Msg
<1>3. /\ Len(c.msgs) = n + 1 /\ DOMAIN c.msgs = 1 .. n + 1 /\ c.msgs[n + 1] = m
      /\ \A i \in 1 .. n : c.msgs[i] = b.msgs[i]
  BY <1>1
<1>4. PICK g : Running(b, g) /\ b.msg_bytes = b.del_bytes + g[n]
  BY DEF BytesAgree
<1>5. /\ g \in [0 .. n -> Int] /\ g[0] = 0
      /\ \A i \in 1 .. n : g[i] = g[i - 1] + Listed(b, i)
  BY <1>4 DEF Running
<1>6. Listed(c, n + 1) = m.size
  BY <1>1, <1>2, <1>3 DEF Listed, msgnum
<1>7. \A i \in 1 .. n : Listed(c, i) = Listed(b, i)
  BY <1>1, <1>3 DEF Listed, msgnum
<1> HIDE DEF n
<1> DEFINE h == [i \in 0 .. n + 1 |-> IF i = n + 1 THEN g[n] + m.size ELSE g[i]]
<1>8. /\ n \in 0 .. n /\ 0 \in 0 .. n + 1 /\ 0 # n + 1 /\ n + 1 \in 0 .. n + 1
      /\ \A i \in 0 .. n + 1 : i # n + 1 => i \in 0 .. n
  BY <1>1
<1>9. h \in [0 .. n + 1 -> Int]
  BY <1>2, <1>5, <1>8
<1>10. h[0] = 0 /\ h[n + 1] = g[n] + m.size
  BY <1>5, <1>8
<1>11. ASSUME NEW i \in 1 .. n + 1
       PROVE  h[i] = h[i - 1] + Listed(c, i)
  <2>1. /\ i \in 0 .. n + 1 /\ i - 1 \in 0 .. n + 1 /\ i - 1 # n + 1
        /\ i # n + 1 => i \in 1 .. n
    BY <1>1
  <2>2. h[i - 1] = g[i - 1]
    BY <2>1
  <2>3. CASE i = n + 1
    <3>1. i - 1 = n
      BY <1>1, <2>3
    <3> QED BY <1>6, <1>10, <2>2, <2>3, <3>1
  <2>4. CASE i # n + 1
    <3>1. h[i] = g[i]
      BY <2>1, <2>4
    <3> QED BY <1>5, <1>7, <2>1, <2>2, <2>4, <3>1
  <2> QED BY <2>3, <2>4
<1> HIDE DEF h
<1>12. Running(c, h)
  BY <1>3, <1>9, <1>10, <1>11 DEF Running, n
<1>13. b.del_bytes \in Nat /\ g[n] \in Int
  BY <1>5, <1>8 DEF Box
<1>14. c.msg_bytes = c.del_bytes + h[Len(c.msgs)]
  BY <1>2, <1>3, <1>4, <1>10, <1>13 DEF n
<1> QED BY <1>12, <1>14 DEF BytesAgree

\* Entry i marked deleted is taken out of the total, once.
LEMMA UnlistAgrees ==
  ASSUME NEW b \in Box, NEW c \in Box, NEW i \in msgnum(b), NEW m \in Msg, BytesAgree(b),
         c.msgs = [b.msgs EXCEPT ![i] = m], m.deleted,
         c.msg_bytes = b.msg_bytes, c.del_bytes = b.del_bytes + b.msgs[i].size
  PROVE  BytesAgree(c)
<1> DEFINE n == Len(b.msgs)
           z == b.msgs[i].size
<1>1. /\ n \in Nat /\ b.msgs \in Seq(Msg) /\ DOMAIN b.msgs = 1 .. n /\ i \in 1 .. n
      /\ \A j \in 1 .. n : Listed(b, j) \in Nat
  BY ListedType DEF msgnum
<1>2. z \in Nat /\ Listed(b, i) = z
  <2>1. b.msgs[i] \in Msg
    BY <1>1
  <2> QED BY <2>1 DEF Listed, Msg
<1>3. /\ Len(c.msgs) = n /\ DOMAIN c.msgs = 1 .. n /\ c.msgs[i] = m
      /\ \A j \in 1 .. n : j # i => c.msgs[j] = b.msgs[j]
  BY <1>1
<1>4. PICK g : Running(b, g) /\ b.msg_bytes = b.del_bytes + g[n]
  BY DEF BytesAgree
<1>5. /\ g \in [0 .. n -> Int] /\ g[0] = 0
      /\ \A j \in 1 .. n : g[j] = g[j - 1] + Listed(b, j)
  BY <1>4 DEF Running
<1>6. Listed(c, i) = 0
  BY <1>3 DEF Listed, msgnum
<1>7. \A j \in 1 .. n : j # i => Listed(c, j) = Listed(b, j)
  BY <1>1, <1>3 DEF Listed, msgnum
<1> HIDE DEF n, z
<1> DEFINE h == [j \in 0 .. n |-> IF j < i THEN g[j] ELSE g[j] - z]
<1>8. h \in [0 .. n -> Int]
  BY <1>2, <1>5
<1>9. /\ 0 \in 0 .. n /\ 0 < i /\ n \in 0 .. n /\ ~ (n < i)
  BY <1>1
<1>10. h[0] = 0 /\ h[n] = g[n] - z
  BY <1>5, <1>9
<1>11. ASSUME NEW j \in 1 .. n
       PROVE  h[j] = h[j - 1] + Listed(c, j)
  <2>1. j \in 0 .. n /\ j - 1 \in 0 .. n /\ i \in Int
    BY <1>1
  <2>2. /\ h[j] = IF j < i THEN g[j] ELSE g[j] - z
        /\ h[j - 1] = IF j - 1 < i THEN g[j - 1] ELSE g[j - 1] - z
    BY <2>1
  <2>3. /\ g[j] = g[j - 1] + Listed(b, j) /\ g[j] \in Int /\ g[j - 1] \in Int
        /\ Listed(b, j) \in Nat
    BY <1>1, <1>5, <2>1
  <2>4. CASE j < i
    <3>1. j - 1 < i /\ j # i
      BY <2>1, <2>4
    <3> QED BY <1>7, <2>2, <2>3, <2>4, <3>1
  <2>5. CASE j = i
    <3>1. j - 1 < i /\ ~ (j < i)
      BY <2>1, <2>5
    <3> QED BY <1>2, <1>6, <2>2, <2>3, <2>5, <3>1
  <2>6. CASE i < j
    <3>1. ~ (j - 1 < i) /\ ~ (j < i) /\ j # i
      BY <2>1, <2>6
    <3> QED BY <1>2, <1>7, <2>2, <2>3, <3>1
  <2> QED BY <2>1, <2>4, <2>5, <2>6
<1> HIDE DEF h
<1>12. Running(c, h)
  BY <1>3, <1>8, <1>10, <1>11 DEF Running, n
<1>13. b.del_bytes \in Nat /\ g[n] \in Int
  BY <1>5, <1>9 DEF Box
<1>14. c.msg_bytes = c.del_bytes + h[Len(c.msgs)]
  <2>1. c.del_bytes = b.del_bytes + z /\ Len(c.msgs) = n
    BY <1>3 DEF z, n
  <2> QED BY <1>2, <1>4, <1>10, <1>13, <2>1
<1> QED BY <1>12, <1>14 DEF BytesAgree

\* DELE marks one entry more that the client asked for: no other has its name.
LEMMA DeleCounts ==
  ASSUME NEW b \in Box, NEW c \in Box, NEW i \in msgnum(b), NEW m \in Msg, NEW k, HeldOnce(b),
         c.msgs = [b.msgs EXCEPT ![i] = m], m.deleted, m.filename = b.msgs[i].filename,
         b.del_count = Cardinality(Told(b, k)), c.del_count = b.del_count + 1
  PROVE  c.del_count = Cardinality(Told(c, k \cup {m.filename}))
<1> DEFINE n == Len(b.msgs)
<1>1. /\ n \in Nat /\ b.msgs \in Seq(Msg) /\ DOMAIN b.msgs = 1 .. n
      /\ i \in 1 .. n /\ ~ b.msgs[i].deleted
  BY ListedType DEF msgnum
<1>2. /\ DOMAIN c.msgs = 1 .. n /\ c.msgs[i] = m
      /\ \A j \in 1 .. n : j # i => c.msgs[j] = b.msgs[j]
  BY <1>1
<1>3. \A j \in 1 .. n : j # i => b.msgs[j].filename # m.filename
  BY <1>1 DEF HeldOnce
<1>4. Told(c, k \cup {m.filename}) = Told(b, k) \cup {i} /\ i \notin Told(b, k)
  <2> HIDE DEF n
  <2> QED BY <1>1, <1>2, <1>3 DEF Told
<1>5. IsFiniteSet(Told(b, k))
  <2>1. IsFiniteSet(1 .. n) /\ Told(b, k) \subseteq 1 .. n
    BY <1>1, FS_Interval DEF Told
  <2> QED BY <2>1, FS_Subset
<1>6. Cardinality(Told(b, k) \cup {i}) = Cardinality(Told(b, k)) + 1
  BY <1>4, <1>5, FS_AddElement
<1> QED BY <1>4, <1>6

\* RETR changes nothing that is counted.
LEMMA ReadAgrees ==
  ASSUME NEW b \in Box, NEW c \in Box, NEW i \in msgnum(b), NEW m \in Msg, NEW k,
         c.msgs = [b.msgs EXCEPT ![i] = m],
         m.deleted = b.msgs[i].deleted, m.filename = b.msgs[i].filename,
         m.size = b.msgs[i].size,
         c.msg_bytes = b.msg_bytes, c.del_bytes = b.del_bytes, BytesAgree(b)
  PROVE  BytesAgree(c) /\ Told(c, k) = Told(b, k)
<1> DEFINE n == Len(b.msgs)
<1>1. /\ n \in Nat /\ b.msgs \in Seq(Msg) /\ DOMAIN b.msgs = 1 .. n /\ i \in 1 .. n
  BY ListedType DEF msgnum
<1>2. /\ DOMAIN c.msgs = 1 .. n /\ Len(c.msgs) = n
      /\ \A j \in 1 .. n : /\ c.msgs[j].deleted = b.msgs[j].deleted
                           /\ c.msgs[j].filename = b.msgs[j].filename
                           /\ c.msgs[j].size = b.msgs[j].size
  BY <1>1
<1>3. \A j \in 1 .. n : Listed(c, j) = Listed(b, j)
  BY <1>1, <1>2 DEF Listed, msgnum
<1>4. PICK g : Running(b, g) /\ b.msg_bytes = b.del_bytes + g[n]
  BY DEF BytesAgree
<1>5. Running(c, g)
  BY <1>2, <1>3, <1>4 DEF Running
<1>6. Told(c, k) = Told(b, k)
  BY <1>1, <1>2 DEF Told
<1> QED BY <1>2, <1>4, <1>5, <1>6 DEF BytesAgree

\* A step of session s, with the totals it leaves.
LEMMA AgreeStep ==
  ASSUME Inductive, Agreeing, NEW s \in Session,
         NEW to, NEW c, NEW k,
         pc' = [pc EXCEPT ![s] = to], box' = [box EXCEPT ![s] = c],
         asked' = [asked EXCEPT ![s] = k], Agrees(to, c, k)
  PROVE  Agreeing'
<1>1. pc'[s] = to /\ box'[s] = c /\ asked'[s] = k
  BY SessionFacts
<1>2. ASSUME NEW t \in Session, t # s
      PROVE  pc'[t] = pc[t] /\ box'[t] = box[t] /\ asked'[t] = asked[t]
  BY <1>2, SessionFacts
<1>3. ASSUME NEW t \in Session
      PROVE  Agrees(pc'[t], box'[t], asked'[t])
  BY <1>1, <1>2 DEF Agreeing
<1> QED BY <1>3 DEF Agreeing

\* What is known of one session's totals; what a step leaves alone it keeps.
LEMMA AgreeFacts ==
  ASSUME Inductive, Agreeing, NEW s \in Session
  PROVE  /\ Agrees(pc[s], box[s], asked[s])
         /\ Holds(pc[s], auth_state[s], box[s], pos[s], asked[s], files, delivered, fetched)
         /\ box[s] \in Box
         /\ pc = [pc EXCEPT ![s] = pc[s]] /\ box = [box EXCEPT ![s] = box[s]]
         /\ asked = [asked EXCEPT ![s] = asked[s]]
  BY SessionFacts DEF Agreeing

\* The totals are those of nothing where a session starts and where it ends.
LEMMA EndsAgree ==
  ASSUME Inductive, Agreeing, NEW s \in Session, NEW to \in {"idle", "start"},
         pc' = [pc EXCEPT ![s] = to], Ends(s)
  PROVE  Agreeing'
<1>1. Agrees(to, NoBox, {})
  BY DEF Agrees
<1> QED BY <1>1, AgreeStep DEF Ends

\* The first stage has none.
LEMMA FirstStageAgrees ==
  ASSUME Inductive, Agreeing, NEW s \in Session, User(s) \/ Pass(s) \/ AuthSasl(s)
  PROVE  Agreeing'
<1>1. \E outcomes : AuthCommand(s, outcomes)
  BY DEF User, Pass, AuthSasl
<1>2. \/ UNCHANGED <<pc, box, asked>>
      \/ \E to \in {"idle", "start"} : pc' = [pc EXCEPT ![s] = to] /\ Ends(s)
  BY <1>1 DEF AuthCommand
<1>3. CASE UNCHANGED <<pc, box, asked>>
  BY <1>3 DEF Agreeing
<1> QED BY <1>2, <1>3, EndsAgree

\* Steps that move on in the program and leave the listing alone.
LEMMA MovesAgree ==
  ASSUME Inductive, Agreeing, NEW s \in Session,
         Connect(s) \/ Scanned(s) \/ Quit(s) \/ QuitMsg(s)
  PROVE  Agreeing'
<1>1. PICK from, to :
        /\ \/ from = "idle" /\ to = "auth"
           \/ from = "make" /\ to = "command"
           \/ from \in {"command", "quit"} /\ to = "quit"
        /\ pc[s] = from /\ pc' = [pc EXCEPT ![s] = to]
  BY DEF Connect, Scanned, Quit, QuitMsg, Goes
<1>2. UNCHANGED <<box, asked>>
  BY DEF Connect, Scanned, Quit, QuitMsg
<1>3. Agrees(from, box[s], asked[s])
  BY <1>1, AgreeFacts
<1>4. Agrees(to, box[s], asked[s])
  BY <1>1, <1>3 DEF Agrees
<1>5. box' = [box EXCEPT ![s] = box[s]] /\ asked' = [asked EXCEPT ![s] = asked[s]]
  BY <1>2, AgreeFacts
<1> QED BY <1>1, <1>4, <1>5, AgreeStep

\* The scans start the totals anew, if they find anything.
LEMMA ScanAgrees ==
  ASSUME Inductive, Agreeing, NEW s \in Session,
         Startup(s) \/ Rset(s) \/ ReadDir(s) \/ ScanNew(s) \/ Sort(s)
  PROVE  Agreeing'
<1> DEFINE b == box[s]
           k == asked[s]
<1>1. /\ Agrees(pc[s], b, k) /\ b \in Box /\ asked = [asked EXCEPT ![s] = k]
      /\ pc = [pc EXCEPT ![s] = pc[s]] /\ Stage(pc[s], b, pos[s])
  BY AgreeFacts DEF Holds
<1>2. CASE Startup(s) \/ Rset(s)
  <2> DEFINE c == scan_maildir(b, files)
  <2>1. /\ pc' = [pc EXCEPT ![s] = "cur"] /\ box' = [box EXCEPT ![s] = c]
        /\ asked' = [asked EXCEPT ![s] = {}]
    <3>1. pc[s] = "start" => k = {}
      BY <1>1 DEF Agrees
    <3> QED BY <1>1, <1>2, <3>1 DEF Startup, Rset, Goes, Boxes
  <2>2. c.msg_bytes = 0
    BY <1>1 DEF scan_maildir, opendir, Box
  <2> HIDE DEF c
  <2>3. Agrees("cur", c, {})
    BY <2>2 DEF Agrees
  <2> QED BY <2>1, <2>3, AgreeStep
<1>3. CASE ReadDir(s)
  <2>1. PICK c \in readdir(b, pc[s], files) : box' = [box EXCEPT ![s] = c]
    BY <1>3 DEF ReadDir, Boxes
  <2>2. c.msg_bytes = b.msg_bytes
    BY <1>1, <2>1 DEF readdir, Box
  <2>3. /\ pc[s] \in {"cur", "new"} /\ pc' = [pc EXCEPT ![s] = pc[s]]
        /\ asked' = [asked EXCEPT ![s] = k]
    BY <1>1, <1>3 DEF ReadDir
  <2>4. Agrees(pc[s], c, k)
    BY <1>1, <2>2, <2>3 DEF Agrees
  <2> HIDE DEF k
  <2> QED BY <2>1, <2>3, <2>4, AgreeStep
<1>4. CASE ScanNew(s)
  <2> DEFINE c == opendir(b, "new", files)
  <2>1. /\ pc[s] = "cur" /\ pc' = [pc EXCEPT ![s] = "new"] /\ box' = [box EXCEPT ![s] = c]
        /\ asked' = [asked EXCEPT ![s] = k]
    BY <1>1, <1>4 DEF ScanNew, Goes, Boxes
  <2>2. c.msg_bytes = b.msg_bytes
    BY <1>1 DEF opendir, Box
  <2> HIDE DEF c
  <2>3. Agrees("new", c, k)
    BY <1>1, <2>1, <2>2 DEF Agrees
  <2> QED BY <2>1, <2>3, AgreeStep
<1>5. CASE Sort(s)
  <2>1. /\ pc[s] = "new" /\ pc' = [pc EXCEPT ![s] = "make"] /\ asked' = asked
    BY <1>5 DEF Sort, Goes
  <2>2. b.msgs = <<>> /\ b.todo = <<>> /\ b.msg_bytes = 0 /\ k = {}
    BY <1>1, <2>1 DEF Agrees, Stage
  <2>3. PICK c \in sort_list(b) : box' = [box EXCEPT ![s] = c]
    BY <1>5 DEF Sort, Boxes
  <2>4. /\ c \in Box /\ c.msgs = <<>>
    <3>1. Holds("new", auth_state[s], b, pos[s], k, files, delivered, fetched)
      BY <2>1, AgreeFacts
    <3>2. /\ OnceNames(b, files, delivered) /\ HeldOnce(b) /\ FewEnough(Names(b))
          /\ WasRead(b, fetched)
      BY <3>1 DEF Holds
    <3> HIDE DEF b
    <3> QED BY <1>1, <2>2, <2>3, <3>2, SortOutcome
  <2>5. c.msg_bytes = 0 /\ (c.todo # <<>> => c.del_count = 0 /\ c.del_bytes = 0)
    <3> DEFINE read == [b EXCEPT !.there = {}, !.list = {}]
    <3>1. read \in Box /\ read.msg_bytes = 0 /\ read.todo = <<>>
      BY <1>1, <2>2 DEF Box
    <3>2. c = read \/ \E names : c = [read EXCEPT !.todo = names, !.del_count = 0, !.del_bytes = 0]
      BY <2>3 DEF sort_list
    <3> HIDE DEF read
    <3> QED BY <3>1, <3>2 DEF Box
  <2>6. Agrees("make", c, k)
    <3>1. CASE c.todo = <<>>
      BY <2>2, <2>4, <3>1 DEF Agrees
    <3>2. CASE c.todo # <<>>
      <4>1. BytesAgree(c) /\ c.del_count = Cardinality(Told(c, k))
        BY <2>4, <2>5, <3>2, NoneToAdd
      <4> QED BY <2>2, <4>1 DEF Agrees
    <3> QED BY <3>1, <3>2
  <2> QED BY <1>1, <2>1, <2>3, <2>6, AgreeStep
<1> QED BY <1>2, <1>3, <1>4, <1>5

\* A name with neither file nor size makes an entry that counts for nothing.
LEMMA MakeMsgAgrees ==
  ASSUME Inductive, Agreeing, NEW s \in Session, MakeMsg(s)
  PROVE  Agreeing'
<1> DEFINE b == box[s]
           k == asked[s]
           m == make_msg(Head(b.todo), files)
           c == make_next(b, files)
<1>1. /\ Agrees("make", b, k) /\ b \in Box /\ b.todo # <<>>
      /\ pc' = [pc EXCEPT ![s] = "make"] /\ box' = [box EXCEPT ![s] = c]
      /\ asked' = [asked EXCEPT ![s] = k]
  BY AgreeFacts DEF MakeMsg, Goes, Boxes
<1>2. k = {} /\ BytesAgree(b) /\ b.del_count = Cardinality(Told(b, k))
  BY <1>1 DEF Agrees
<1>3. b.todo \in Seq(Name) /\ b.msgs \in Seq(Msg) /\ b.msg_bytes \in Nat
  BY <1>1 DEF Box
<1>4. Head(b.todo) \in Name /\ Tail(b.todo) \in Seq(Name)
  BY <1>1, <1>3
<1>5. m \in Msg /\ (m.deleted => m.size = 0)
  <2> DEFINE f == Head(b.todo)
  <2>1. f.id \in Message
    BY <1>4 DEF Name
  <2>2. Bytes[f.id] \in Nat
    BY <2>1, MaildirAssumption
  <2> HIDE DEF f
  <2>3. f \in Name
    BY <1>4 DEF f
  <2>4. make_msg(f, files) \in Msg
        /\ (make_msg(f, files).deleted => make_msg(f, files).size = 0)
    BY <2>2, <2>3 DEF make_msg, Msg
  <2> QED BY <2>4 DEF f
<1>6. c = [b EXCEPT !.todo = Tail(b.todo), !.msgs = Append(b.msgs, m),
                    !.msg_bytes = b.msg_bytes + m.size]
  BY DEF make_next
<1> HIDE DEF m, c
<1>7. m.size \in Nat
  BY <1>5 DEF Msg
<1>8. Append(b.msgs, m) \in Seq(Msg) /\ b.msg_bytes + m.size \in Nat
  BY <1>3, <1>5, <1>7
<1>9. /\ c \in Box /\ c.msgs = Append(b.msgs, m) /\ c.msg_bytes = b.msg_bytes + m.size
      /\ c.del_bytes = b.del_bytes /\ c.del_count = b.del_count
  BY <1>1, <1>4, <1>6, <1>8 DEF Box
<1> HIDE DEF b
<1>10. BytesAgree(c)
  BY <1>1, <1>2, <1>5, <1>9, AppendAgrees
<1>11. Told(c, k) = {} /\ Told(b, k) = {}
  BY <1>2 DEF Told
<1>12. Agrees("make", c, k)
  BY <1>2, <1>9, <1>10, <1>11 DEF Agrees
<1> QED BY <1>1, <1>12, AgreeStep

\* DELE takes its message out of both totals.
LEMMA DeleAgrees ==
  ASSUME Inductive, Agreeing, NEW s \in Session, Dele(s)
  PROVE  Agreeing'
<1>1. PICK i \in msgnum(box[s]) :
        /\ Boxes(s, {dele(box[s], i)})
        /\ asked' = [asked EXCEPT ![s] = @ \cup {box[s].msgs[i].filename}]
  BY DEF Dele
<1> DEFINE b == box[s]
           m == [b.msgs[i] EXCEPT !.deleted = TRUE]
           k == asked[s]
           c == dele(b, i)
<1>2. /\ Agrees("command", b, k) /\ b \in Box /\ HeldOnce(b)
      /\ pc' = [pc EXCEPT ![s] = "command"] /\ box' = [box EXCEPT ![s] = c]
      /\ asked' = [asked EXCEPT ![s] = k \cup {b.msgs[i].filename}]
  BY <1>1, AgreeFacts DEF Dele, Goes, Boxes, Holds
<1>3. /\ b.msgs \in Seq(Msg) /\ i \in DOMAIN b.msgs /\ b.msgs[i] \in Msg
      /\ b.del_bytes \in Nat /\ b.del_count \in Nat
  BY <1>2 DEF msgnum, Box
<1>4. m \in Msg /\ m.deleted /\ m.filename = b.msgs[i].filename /\ b.msgs[i].size \in Nat
  BY <1>3 DEF Msg
<1>5. /\ [b.msgs EXCEPT ![i] = m] \in Seq(Msg) /\ b.del_bytes + b.msgs[i].size \in Nat
      /\ b.del_count + 1 \in Nat
  <2> HIDE DEF m
  <2>1. [b.msgs EXCEPT ![i] = m] \in Seq(Msg)
    BY <1>3, <1>4
  <2> HIDE DEF b
  <2> QED BY <1>3, <1>4, <2>1
<1>6. c = [b EXCEPT !.del_bytes = b.del_bytes + b.msgs[i].size, !.del_count = b.del_count + 1,
                    !.msgs = [b.msgs EXCEPT ![i] = m]]
  BY <1>2 DEF dele, Box
<1> HIDE DEF m, c
<1>7. /\ c \in Box /\ c.msgs = [b.msgs EXCEPT ![i] = m]
      /\ c.msg_bytes = b.msg_bytes /\ c.del_bytes = b.del_bytes + b.msgs[i].size
      /\ c.del_count = b.del_count + 1
  BY <1>2, <1>3, <1>5, <1>6 DEF Box
<1>8. BytesAgree(b) /\ b.del_count = Cardinality(Told(b, k))
  <2>1. b.msgs # <<>>
    BY <1>3
  <2> QED BY <1>2, <2>1 DEF Agrees
<1>9. i \in msgnum(b)
  OBVIOUS
<1> HIDE DEF b
<1>10. BytesAgree(c)
  BY <1>2, <1>4, <1>7, <1>8, <1>9, UnlistAgrees
<1>11. c.del_count = Cardinality(Told(c, k \cup {m.filename}))
  BY <1>2, <1>4, <1>7, <1>8, <1>9, DeleCounts
<1>12. Agrees("command", c, k \cup {b.msgs[i].filename})
  BY <1>4, <1>10, <1>11 DEF Agrees
<1> QED BY <1>2, <1>12, AgreeStep

\* RETR of a message leaves them.
LEMMA RetrAgrees ==
  ASSUME Inductive, Agreeing, NEW s \in Session, Retr(s)
  PROVE  Agreeing'
<1>1. PICK i \in msgnum(box[s]) : Boxes(s, {top(box[s], i)})
  BY DEF Retr
<1> DEFINE b == box[s]
           m == [b.msgs[i] EXCEPT !.read = TRUE]
           k == asked[s]
           c == top(b, i)
<1>2. /\ Agrees("command", b, k) /\ b \in Box
      /\ pc' = [pc EXCEPT ![s] = "command"] /\ box' = [box EXCEPT ![s] = c]
      /\ asked' = [asked EXCEPT ![s] = k]
  BY <1>1, AgreeFacts DEF Retr, Goes, Boxes
<1>3. b.msgs \in Seq(Msg) /\ i \in DOMAIN b.msgs /\ b.msgs[i] \in Msg
  BY <1>2 DEF msgnum, Box
<1>4. /\ m \in Msg /\ m.deleted = b.msgs[i].deleted /\ m.filename = b.msgs[i].filename
      /\ m.size = b.msgs[i].size
  BY <1>3 DEF Msg
<1>5. [b.msgs EXCEPT ![i] = m] \in Seq(Msg)
  BY <1>3, <1>4
<1>6. c = [b EXCEPT !.msgs = [b.msgs EXCEPT ![i] = m]]
  BY <1>2 DEF top, Box
<1> HIDE DEF m, c
<1>7. /\ c \in Box /\ c.msgs = [b.msgs EXCEPT ![i] = m]
      /\ c.msg_bytes = b.msg_bytes /\ c.del_bytes = b.del_bytes /\ c.del_count = b.del_count
  BY <1>2, <1>3, <1>5, <1>6 DEF Box
<1>8. BytesAgree(b) /\ b.del_count = Cardinality(Told(b, k))
  <2>1. b.msgs # <<>>
    BY <1>3
  <2> QED BY <1>2, <2>1 DEF Agrees
<1>9. i \in msgnum(b)
  OBVIOUS
<1> HIDE DEF b
<1>10. BytesAgree(c) /\ Told(c, k) = Told(b, k)
  BY <1>2, <1>4, <1>7, <1>8, <1>9, ReadAgrees
<1>11. Agrees("command", c, k)
  BY <1>7, <1>8, <1>10 DEF Agrees
<1> QED BY <1>2, <1>11, AgreeStep

\* Every step keeps them.
LEMMA NextAgrees ==
  ASSUME Inductive, Agreeing, [Next]_vars
  PROVE  Agreeing'
<1>1. ASSUME NEW m \in Message, Deliver(m)
      PROVE  Agreeing'
  BY <1>1 DEF Deliver, Agreeing
<1>2. ASSUME NEW s \in Session, Lost(s) \/ QuitDone(s)
      PROVE  Agreeing'
  BY <1>2, EndsAgree DEF Lost, QuitDone, Goes
<1>3. ASSUME NEW s \in Session, User(s) \/ Pass(s) \/ AuthSasl(s)
      PROVE  Agreeing'
  BY <1>3, FirstStageAgrees
<1>4. ASSUME NEW s \in Session, Connect(s) \/ Scanned(s) \/ Quit(s) \/ QuitMsg(s)
      PROVE  Agreeing'
  BY <1>4, MovesAgree
<1>5. ASSUME NEW s \in Session,
             Startup(s) \/ Rset(s) \/ ReadDir(s) \/ ScanNew(s) \/ Sort(s)
      PROVE  Agreeing'
  BY <1>5, ScanAgrees
<1>6. ASSUME NEW s \in Session, MakeMsg(s)
      PROVE  Agreeing'
  BY <1>6, MakeMsgAgrees
<1>7. ASSUME NEW s \in Session, Dele(s)
      PROVE  Agreeing'
  BY <1>7, DeleAgrees
<1>8. ASSUME NEW s \in Session, Retr(s)
      PROVE  Agreeing'
  BY <1>8, RetrAgrees
<1>9. CASE UNCHANGED vars
  BY <1>9 DEF vars, Agreeing
<1> QED BY <1>1, <1>2, <1>3, <1>4, <1>5, <1>6, <1>7, <1>8, <1>9 DEF Next

\* A listing's entries are listed, asked for, or gone when they were made.
LEMMA CountAgrees ==
  ASSUME NEW b \in Box, NEW k
  PROVE  LET gone == {i \in DOMAIN b.msgs : b.msgs[i].deleted /\ b.msgs[i].filename \notin k}
         IN  Len(b.msgs) - Cardinality(Told(b, k)) = Cardinality(msgnum(b)) + Cardinality(gone)
<1> DEFINE gone == {i \in DOMAIN b.msgs : b.msgs[i].deleted /\ b.msgs[i].filename \notin k}
           n == Len(b.msgs)
           A == msgnum(b)
           B == Told(b, k)
<1>1. n \in Nat /\ DOMAIN b.msgs = 1 .. n
  BY ListedType
<1>2. /\ A \cup gone \cup B = 1 .. n /\ A \cap gone = {} /\ (A \cup gone) \cap B = {}
      /\ A \subseteq 1 .. n /\ gone \subseteq 1 .. n /\ B \subseteq 1 .. n
  BY <1>1 DEF msgnum, Told
<1>3. IsFiniteSet(1 .. n) /\ Cardinality(1 .. n) = n
  BY <1>1, FS_Interval
<1> HIDE DEF gone, A, B, n
<1>4. IsFiniteSet(A) /\ IsFiniteSet(gone) /\ IsFiniteSet(B)
  BY <1>2, <1>3, FS_Subset
<1>5. /\ IsFiniteSet(A \cup gone)
      /\ Cardinality(A \cup gone) = Cardinality(A) + Cardinality(gone) - Cardinality({})
  BY <1>2, <1>4, FS_Union
<1>6. n = Cardinality(A \cup gone) + Cardinality(B) - Cardinality({})
  <2>1. Cardinality((A \cup gone) \cup B)
          = Cardinality(A \cup gone) + Cardinality(B) - Cardinality((A \cup gone) \cap B)
    BY ONLY <1>4, <1>5, FS_Union
  <2> QED BY <1>2, <1>3, <2>1
<1>7. /\ Cardinality(A) \in Nat /\ Cardinality(gone) \in Nat /\ Cardinality(B) \in Nat
      /\ Cardinality({}) = 0
  BY <1>4, FS_CardinalityType, FS_EmptySet
<1>8. n - Cardinality(B) = Cardinality(A) + Cardinality(gone)
  BY <1>5, <1>6, <1>7
<1> QED BY <1>8 DEF gone, A, B, n

(***************************************************************************)
(* STAT never disagrees with LIST, however often messages are deleted, the *)
(* listing is made anew, and other sessions rename and remove the files.   *)
(***************************************************************************)
THEOREM StatAlwaysAgrees == Spec => []StatAgrees
<1>1. Init => Agreeing
  <2> SUFFICES ASSUME Init, NEW s \in Session PROVE Agrees(pc[s], box[s], asked[s])
    BY DEF Agreeing
  <2> QED BY DEF Init, Agrees
<1>2. Inductive /\ Agreeing /\ [Next]_vars => Agreeing'
  BY NextAgrees
<1>3. Inductive /\ Agreeing => StatAgrees
  <2> SUFFICES ASSUME Inductive, Agreeing, NEW s \in Session, pc[s] = "command",
                      box[s].msgs # <<>>
               PROVE  LET b    == box[s]
                          gone == {i \in DOMAIN b.msgs : b.msgs[i].deleted /\
                                                         b.msgs[i].filename \notin asked[s]}
                      IN  /\ stat(b).bytes = Total(b)
                          /\ stat(b).count = Cardinality(msgnum(b)) + Cardinality(gone)
    BY DEF StatAgrees
  <2> DEFINE b == box[s]
             n == Len(b.msgs)
  <2>1. b \in Box /\ BytesAgree(b) /\ b.del_count = Cardinality(Told(b, asked[s]))
    BY AgreeFacts DEF Agrees
  <2>2. PICK g : Running(b, g) /\ b.msg_bytes = b.del_bytes + g[n]
    BY <2>1 DEF BytesAgree
  <2>3. Total(b) = g[n]
    <3> HIDE DEF b
    <3> QED BY <2>1, <2>2, RunningEnds
  <2>4. g[n] \in Int /\ b.del_bytes \in Nat /\ n \in Nat
    <3>1. n \in Nat
      BY <2>1, ListedType
    <3> QED BY <2>1, <2>2, <3>1 DEF Running, Box
  <2>5. stat(b).bytes = Total(b)
    BY <2>2, <2>3, <2>4 DEF stat
  <2>6. stat(b).count = n - Cardinality(Told(b, asked[s]))
    BY <2>1 DEF stat
  <2> QED BY <2>1, <2>5, <2>6, CountAgrees
<1> QED BY <1>1, <1>2, <1>3, InductiveAlways, PTL DEF Spec

=============================================================================
