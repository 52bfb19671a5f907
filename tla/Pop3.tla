--------------------------------- MODULE Pop3 ---------------------------------
(***************************************************************************)
(* `pop3front-auth cvm pop3front-maildir': sessions of both stages over    *)
(* one maildir, to which mail is delivered meanwhile.  The system calls of *)
(* a scan and of QUIT are steps of their own, in the order of the code, so *)
(* those of the sessions interleave.  A process may be killed anywhere.    *)
(***************************************************************************)
EXTENDS Maildir, Pop3Auth

CONSTANTS
  Session,    \* connections open at a time (a bound)
  FirstFiles  \* what may be in the maildir at first

\* A maildir holds finitely many files, and each message under one name.
ASSUME Pop3Assumption ==
  \A first \in FirstFiles :
    /\ first \subseteq Name /\ IsFiniteSet(first)
    /\ \A f, g \in first : f.id = g.id => f = g

(***************************************************************************)
(* pc        "idle", in "auth", starting the second stage ("start"), in a  *)
(*           scan, reading "cur", then "new", then making the messages     *)
(*           ("make"), reading a "command", in the loop of "quit"          *)
(* auth, box the state of the two stages                                   *)
(* pos       the loop variable of QUIT                                     *)
(* files     the maildir                                                   *)
(* And, not in the code:                                                   *)
(* delivered the messages that have been in the maildir                    *)
(* asked     the names of the entries this session's client was told are   *)
(*           deleted, since its last RSET                                  *)
(* fetched   the messages some client asked for with RETR                  *)
(***************************************************************************)
VARIABLES pc, auth_state, box, pos, files, delivered, asked, fetched

vars == <<pc, auth_state, box, pos, files, delivered, asked, fetched>>

Init ==
  /\ pc = [s \in Session |-> "idle"]
  /\ auth_state = [s \in Session |-> NoAuth]
  /\ box = [s \in Session |-> NoBox]
  /\ pos = [s \in Session |-> 1]
  /\ files \in FirstFiles
  /\ delivered = {f.id : f \in files}
  /\ asked = [s \in Session |-> {}]
  /\ fetched = {f.id : f \in {g \in files : g.info = "2S"}}

\* The process of session s ends, or is replaced, and its memory with it.
Ends(s) ==
  /\ auth_state' = [auth_state EXCEPT ![s] = NoAuth]
  /\ box' = [box EXCEPT ![s] = NoBox]
  /\ pos' = [pos EXCEPT ![s] = 1]
  /\ asked' = [asked EXCEPT ![s] = {}]

Goes(s, from, to) == pc[s] = from /\ pc' = [pc EXCEPT ![s] = to]

(***************************************************************************)
(* The environment: a delivery puts a new name in new/; a client connects; *)
(* a connection is lost or times out, or the process is killed.            *)
(***************************************************************************)
Deliver(m) ==
  /\ m \notin delivered
  /\ delivered' = delivered \cup {m}
  /\ files' = files \cup {[dir |-> "new", id |-> m, info |-> "none"]}
  /\ UNCHANGED <<pc, auth_state, box, pos, asked, fetched>>

Connect(s) ==
  /\ Goes(s, "idle", "auth")
  /\ UNCHANGED <<auth_state, box, pos, files, delivered, asked, fetched>>

Lost(s) ==
  /\ pc[s] # "idle" /\ pc' = [pc EXCEPT ![s] = "idle"]
  /\ Ends(s)
  /\ UNCHANGED <<files, delivered, fetched>>

-----------------------------------------------------------------------------
(* The first stage                                                         *)

AuthCommand(s, outcomes) ==
  /\ pc[s] = "auth"
  /\ \E o \in outcomes :
       \/ /\ o.then = "on"
          /\ auth_state' = [auth_state EXCEPT ![s] = o.auth]
          /\ UNCHANGED <<pc, box, pos, asked>>
       \/ /\ o.then = "exit" /\ pc' = [pc EXCEPT ![s] = "idle"]
          /\ Ends(s)
       \/ /\ o.then = "exec" /\ pc' = [pc EXCEPT ![s] = "start"]
          /\ Ends(s)
  /\ UNCHANGED <<files, delivered, fetched>>

User(s) == AuthCommand(s, user(auth_state[s]))
Pass(s) == AuthCommand(s, pass(auth_state[s]))
AuthSasl(s) == AuthCommand(s, auth(auth_state[s]))

-----------------------------------------------------------------------------
(* The second stage                                                        *)

Boxes(s, boxes) == \E b \in boxes : box' = [box EXCEPT ![s] = b]

\* chdir or opendir may fail; the session then ends (Lost).
Startup(s) ==
  /\ Goes(s, "start", "cur")
  /\ Boxes(s, {scan_maildir(box[s], files)})
  /\ UNCHANGED <<auth_state, pos, files, delivered, asked, fetched>>

ReadDir(s) ==
  /\ pc[s] \in {"cur", "new"}
  /\ Boxes(s, readdir(box[s], pc[s], files))
  /\ UNCHANGED <<pc, auth_state, pos, files, delivered, asked, fetched>>

ScanNew(s) ==
  /\ Goes(s, "cur", "new")
  /\ AtEnd(box[s], "cur", files)
  /\ Boxes(s, {opendir(box[s], "new", files)})
  /\ UNCHANGED <<auth_state, pos, files, delivered, asked, fetched>>

Sort(s) ==
  /\ Goes(s, "new", "make")
  /\ AtEnd(box[s], "new", files)
  /\ Boxes(s, sort_list(box[s]))
  /\ UNCHANGED <<auth_state, pos, files, delivered, asked, fetched>>

MakeMsg(s) ==
  /\ Goes(s, "make", "make")
  /\ box[s].todo # <<>>
  /\ Boxes(s, {make_next(box[s], files)})
  /\ UNCHANGED <<auth_state, pos, files, delivered, asked, fetched>>

Scanned(s) ==
  /\ Goes(s, "make", "command")
  /\ box[s].todo = <<>>
  /\ UNCHANGED <<auth_state, box, pos, files, delivered, asked, fetched>>

Dele(s) ==
  /\ Goes(s, "command", "command")
  /\ \E i \in msgnum(box[s]) :
       /\ Boxes(s, {dele(box[s], i)})
       /\ asked' = [asked EXCEPT ![s] = @ \cup {box[s].msgs[i].filename}]
  /\ UNCHANGED <<auth_state, pos, files, delivered, fetched>>

Retr(s) ==
  /\ Goes(s, "command", "command")
  /\ \E i \in msgnum(box[s]) :
       /\ Boxes(s, {top(box[s], i)})
       /\ fetched' = fetched \cup {box[s].msgs[i].filename.id}
  /\ UNCHANGED <<auth_state, pos, files, delivered, asked>>

\* Mutant of Rset: the counts and the listing are made anew, the marks are not.
Rset_forgetting_nothing(s) ==
  /\ Goes(s, "command", "command")
  /\ asked' = [asked EXCEPT ![s] = {}]
  /\ UNCHANGED <<auth_state, box, pos, files, delivered, fetched>>

Rset(s) ==
  /\ Goes(s, "command", "cur")
  /\ Boxes(s, {scan_maildir(box[s], files)})
  /\ asked' = [asked EXCEPT ![s] = {}]
  /\ UNCHANGED <<auth_state, pos, files, delivered, fetched>>

Quit(s) ==
  /\ Goes(s, "command", "quit")
  /\ UNCHANGED <<auth_state, box, pos, files, delivered, asked, fetched>>

QuitMsg(s) ==
  /\ Goes(s, "quit", "quit")
  /\ pos[s] <= Len(box[s].msgs)
  /\ files' = quit_msg(box[s].msgs[pos[s]], files)
  /\ pos' = [pos EXCEPT ![s] = @ + 1]
  /\ UNCHANGED <<auth_state, box, delivered, asked, fetched>>

QuitDone(s) ==
  /\ Goes(s, "quit", "idle")
  /\ pos[s] > Len(box[s].msgs)
  /\ Ends(s)
  /\ UNCHANGED <<files, delivered, fetched>>

Next ==
  \/ \E m \in Message : Deliver(m)
  \/ \E s \in Session :
       \/ Connect(s) \/ Lost(s)
       \/ User(s) \/ Pass(s) \/ AuthSasl(s)
       \/ Startup(s) \/ ReadDir(s) \/ ScanNew(s) \/ Sort(s) \/ MakeMsg(s) \/ Scanned(s)
       \/ Dele(s) \/ Retr(s) \/ Rset(s) \/ Quit(s) \/ QuitMsg(s) \/ QuitDone(s)

Spec == Init /\ [][Next]_vars

-----------------------------------------------------------------------------
(* Properties                                                              *)

TypeOK ==
  /\ pc \in [Session -> {"idle", "auth", "start", "cur", "new", "make", "command", "quit"}]
  /\ auth_state \in [Session -> Auth]
  /\ \A s \in Session :
       /\ box[s].there \subseteq Name /\ box[s].list \subseteq Name
       /\ box[s].todo \in Seq(Name)
       /\ box[s].msgs \in Seq(Msg)
       /\ box[s].del_count \in Nat /\ box[s].del_bytes \in Nat /\ box[s].msg_bytes \in Nat
  /\ pos \in [Session -> Nat]
  /\ files \subseteq Name
  /\ delivered \subseteq Message /\ fetched \subseteq Message
  /\ asked \in [Session -> SUBSET Name]

(***************************************************************************)
(* Two entries with one UID are two messages whose long names are cut to   *)
(* it, or one message that QUIT in another session flagged while cur/ was  *)
(* read, under its name before and its name after.  A message that QUIT    *)
(* moves from new/ to cur/ in the middle of the scan is never listed       *)
(* twice: the scan reads cur/ first.                                       *)
(***************************************************************************)
ListedOnce ==
  \A s \in Session : pc[s] = "command" =>
    LET b == box[s]
    IN  \A i, j \in msgnum(b) : i # j /\ uidl(b)[i] = uidl(b)[j] =>
          LET f == b.msgs[i].filename
              g == b.msgs[j].filename
          IN  \/ f.id # g.id
              \/ /\ f.dir = "cur" /\ g.dir = "cur"
                 /\ \/ f.info = "2S" /\ g.info \in {"none", "2"}
                    \/ g.info = "2S" /\ f.info \in {"none", "2"}

\* The sizes that LIST lists, added up in its order.
Total(b) ==
  LET total[i \in 0 .. Len(b.msgs)] ==
        IF i = 0 THEN 0
        ELSE total[i - 1] + (IF i \in DOMAIN list(b) THEN list(b)[i] ELSE 0)
  IN  total[Len(b.msgs)]

(***************************************************************************)
(* STAT's bytes are the sum of what LIST lists; STAT's count is higher by  *)
(* the entries whose files went away while they were being listed.  Of one *)
(* without entries this says nothing: RSET then keeps the old counts.      *)
(***************************************************************************)
StatAgrees ==
  \A s \in Session : pc[s] = "command" /\ box[s].msgs # <<>> =>
    LET b    == box[s]
        gone == {i \in DOMAIN b.msgs : b.msgs[i].deleted /\ b.msgs[i].filename \notin asked[s]}
    IN  /\ stat(b).bytes = Total(b)
        /\ stat(b).count = Cardinality(msgnum(b)) + Cardinality(gone)

(***************************************************************************)
(* $MAX_MESSAGES, $MAX_CUR_MESSAGES and $MAX_NEW_MESSAGES limit what a     *)
(* session has access to, in all and in each directory.                    *)
(***************************************************************************)
LimitsHold ==
  \A s \in Session :
    LET In(d) == Cardinality({i \in DOMAIN box[s].msgs : box[s].msgs[i].filename.dir = d})
    IN  /\ MaxCount > 0 => Len(box[s].msgs) <= MaxCount
        /\ MaxCur > 0 => In("cur") <= MaxCur
        /\ MaxNew > 0 => In("new") <= MaxNew

(***************************************************************************)
(* Mail disappears only in the QUIT of a session that told its client this *)
(* very entry was deleted, and did not take it back with RSET; never       *)
(* because a session was lost, or because another renamed the file, which  *)
(* make_msg takes for deleted, or because a scan saw it under two names.   *)
(***************************************************************************)
NoMailIsLost ==
  [][\A f \in files :
       \/ \E g \in files' : g.id = f.id
       \/ \E s \in Session : pc[s] = "quit" /\ f \in asked[s]]_vars

(***************************************************************************)
(* What a session was told to delete is gone from under the name it knew   *)
(* when its QUIT is done.                                                  *)
(***************************************************************************)
DeletedIsGone ==
  \A s \in Session : pc[s] = "quit" /\ pos[s] > Len(box[s].msgs) =>
    \A i \in DOMAIN box[s].msgs :
      box[s].msgs[i].deleted => box[s].msgs[i].filename \notin files

(***************************************************************************)
(* Names are never used again: files move from new/ to cur/ only, where    *)
(* flags are added and never taken, and flags of a kind this program does  *)
(* not know are kept.  It is why a stale name can harm no message.         *)
(***************************************************************************)
NamesNeverReturn ==
  [][\A f \in files, g \in files' : f.id = g.id =>
       \/ f = g
       \/ /\ g.dir = "cur"
          /\ g.info = f.info \/ (f.info \in {"none", "2"} /\ g.info = "2S")]_vars

\* A message is marked as read only if some client fetched it.
ReadWasFetched == \A f \in files : f.info = "2S" => f.id \in fetched

(***************************************************************************)
(* A client that goes on talking to the first stage has failed fewer than  *)
(* $MAXAUTHFAIL times, by PASS and AUTH together.                          *)
(***************************************************************************)
FailuresAreLimited ==
  \A s \in Session : pc[s] = "auth" /\ AuthMax > 0 => auth_state[s].refused < AuthMax

=============================================================================
