-------------------------------- MODULE Maildir --------------------------------
(***************************************************************************)
(* A maildir and what one session of pop3front-maildir.c knows about it.   *)
(* Several sessions, and the programs that deliver, share the maildir      *)
(* without any lock: a session works on the listing it made at its start   *)
(* or at its last RSET, by the file names it saw then.                     *)
(*                                                                         *)
(* A file is named by its directory, "new" or "cur", the message's own     *)
(* part of the name, and what follows the colon:                           *)
(*   "none"   nothing                   "2"   ":2," without the flag S     *)
(*   "2S"     ":2," with the flag S     "1"   flags of another kind        *)
(* Files keep their contents, so a message stands for its contents too.    *)
(***************************************************************************)
EXTENDS Integers, FiniteSets, SequencesExt

CONSTANTS
  Message,   \* the messages that are, or will be, in the maildir
  Stamp,     \* Stamp[m]: the number their names start with
  Uid,       \* Uid[m]: their own parts up to a comma, and 70 characters at most
  Bytes,     \* Bytes[m]: their size
  Sized,     \* the messages whose names carry their size
  MaxCount,  \* $MAX_MESSAGES, $MAX_CUR_MESSAGES and $MAX_NEW_MESSAGES;
  MaxCur,    \*   0 is no limit
  MaxNew

ASSUME MaildirAssumption ==
  /\ Stamp \in [Message -> Nat] /\ DOMAIN Uid = Message /\ Bytes \in [Message -> Nat \ {0}]
  /\ Sized \subseteq Message
  /\ {MaxCount, MaxCur, MaxNew} \subseteq Nat

Info == {"none", "2", "2S", "1"}
Name == [dir : {"new", "cur"}, id : Message, info : Info]
Msg  == [filename : Name, size : Nat, read : BOOLEAN, deleted : BOOLEAN]

(***************************************************************************)
(* there     names that were in the directory when the scan opened it      *)
(* list      names found by the scan, before they are sorted               *)
(* todo      names sorted, of which no entry of msgs is made yet           *)
(* msgs, del_count, del_bytes, msg_bytes  as in the code                   *)
(***************************************************************************)
Box == [there : SUBSET Name, list : SUBSET Name, todo : Seq(Name), msgs : Seq(Msg),
        del_count : Nat, del_bytes : Nat, msg_bytes : Nat]

NoBox == [there |-> {}, list |-> {}, todo |-> <<>>, msgs |-> <<>>,
          del_count |-> 0, del_bytes |-> 0, msg_bytes |-> 0]

\* Mutant of Within: new/ is read before cur/.
Within_new_first(dir, names) == {f \in names : f.dir # dir}

Within(dir, names) == {f \in names : f.dir = dir}

\* Mutant of Full: the limits let one more through.
Full_one_more(b, dir) ==
  LET max == IF dir = "cur" THEN MaxCur ELSE MaxNew
  IN  \/ MaxCount > 0 /\ Cardinality(b.list) > MaxCount
      \/ max > 0 /\ Cardinality(Within(dir, b.list)) > max

\* One of the limits is reached.
Full(b, dir) ==
  LET max == IF dir = "cur" THEN MaxCur ELSE MaxNew
  IN  \/ MaxCount > 0 /\ Cardinality(b.list) >= MaxCount
      \/ max > 0 /\ Cardinality(Within(dir, b.list)) >= max

(***************************************************************************)
(* scan_dir opens a directory and reads it entry by entry.  readdir gives, *)
(* in its own order and none twice, every entry that stays there, and may  *)
(* or may not give one that comes or goes meanwhile.                       *)
(***************************************************************************)
opendir(b, dir, files) == [b EXCEPT !.there = Within(dir, files)]

readdir(b, dir, files) ==
  IF Full(b, dir) THEN {}
  ELSE {[b EXCEPT !.list = @ \cup {f}] : f \in Within(dir, files) \ b.list}

AtEnd(b, dir, files) == Full(b, dir) \/ b.there \cap files \subseteq b.list

\* str_sort leaves names that compare equal in any order.
Sorted(list) ==
  {names \in SetToSeqs(list) :
     \A i, j \in DOMAIN names : i < j => Stamp[names[i].id] <= Stamp[names[j].id]}

(***************************************************************************)
(* Only a name without a size is looked for; one that is not there any     *)
(* more counts as deleted, but not in del_count.                           *)
(***************************************************************************)
make_msg(f, files) ==
  LET there == f.id \in Sized \/ f \in files
  IN  [filename |-> f, read |-> f.info = "2S", deleted |-> ~ there,
       size |-> IF there THEN Bytes[f.id] ELSE 0]

scan_maildir(b, files) == opendir([b EXCEPT !.msgs = <<>>, !.msg_bytes = 0], "cur", files)

\* An empty maildir returns before del_count and del_bytes are cleared.
sort_list(b) ==
  LET read == [b EXCEPT !.there = {}, !.list = {}]
  IN  IF b.list = {} THEN {read}
      ELSE {[read EXCEPT !.todo = names, !.del_count = 0, !.del_bytes = 0] :
              names \in Sorted(b.list)}

make_next(b, files) ==
  LET m == make_msg(Head(b.todo), files)
  IN  [b EXCEPT !.todo = Tail(@), !.msgs = Append(@, m), !.msg_bytes = @ + m.size]

msgnum(b) == {i \in DOMAIN b.msgs : ~ b.msgs[i].deleted}

\* Mutant of dele: the bytes of the message still count.
dele_without_bytes(b, i) ==
  [b EXCEPT !.del_count = @ + 1, !.msgs[i].deleted = TRUE]

dele(b, i) ==
  [b EXCEPT !.del_bytes = @ + b.msgs[i].size, !.del_count = @ + 1,
            !.msgs[i].deleted = TRUE]

\* RETR, and TOP without a count of lines, whether or not the file opens.
top(b, i) == [b EXCEPT !.msgs[i].read = TRUE]

\* The answers to LIST, UIDL and STAT.
list(b) == [i \in msgnum(b) |-> b.msgs[i].size]
uidl(b) == [i \in msgnum(b) |-> Uid[b.msgs[i].filename.id]]
stat(b) == [count |-> Len(b.msgs) - b.del_count, bytes |-> b.msg_bytes - b.del_bytes]

\* Mutant of add_flag: flags of any kind are replaced.
add_flag_replacing(info) == "2S"

\* Mutant of add_flag: a flag that is there is added again.
add_flag_again(info) ==
  CASE info = "1" -> info [] info = "2S" -> "2SS" [] OTHER -> "2S"

add_flag(info) == IF info = "1" THEN info ELSE "2S"

unlink(f, files) == files \ {f}

rename(f, g, files) == IF f \in files THEN (files \ {f}) \cup {g} ELSE files

\* Mutant of quit_msg: every message is marked read.
quit_msg_marking(m, files) ==
  IF m.deleted THEN unlink(m.filename, files)
  ELSE rename(m.filename, [m.filename EXCEPT !.dir = "cur", !.info = add_flag(@)], files)

\* Mutant of quit_msg: a message that was read is kept, deleted or not.
quit_msg_keeping_read(m, files) ==
  IF m.deleted /\ ~ m.read THEN unlink(m.filename, files)
  ELSE rename(m.filename, [m.filename EXCEPT !.dir = "cur"], files)

quit_msg(m, files) ==
  IF m.deleted THEN unlink(m.filename, files)
  ELSE rename(m.filename,
              [m.filename EXCEPT !.dir = "cur",
                                 !.info = IF m.read THEN add_flag(@) ELSE @],
              files)

=============================================================================
