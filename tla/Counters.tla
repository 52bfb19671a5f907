------------------------------- MODULE Counters -------------------------------
(***************************************************************************)
(* plugin-counters.c.  A hook takes the session record and returns         *)
(* [x, resp].  The plugin's own state is three fields of that record:      *)
(*   rcpt_count  recipients since the last reset                           *)
(*   msg_count   messages that reached the plugin's message_end            *)
(*   data_bytes  bytes of the message that is arriving                     *)
(* The count of header fields (maxhops) is in Texts.                       *)
(***************************************************************************)
EXTENDS SessionStore

Reply(x, r) == [x |-> x, resp |-> r]

(***************************************************************************)
(* The number sname follows the variable name downwards only.  [x, u]: u   *)
(* is 0 when the variable is not set, even if the number is.               *)
(***************************************************************************)
minenv(x, sname, name) ==
  LET value == session_getenvu(x, name)
      number == session_getnum(x, sname, 0)
  IN  IF value = 0 THEN [x |-> x, u |-> 0]
      ELSE IF ~ session_hasnum(x, sname) \/ number > value
      THEN [x |-> session_setnum(x, sname, value), u |-> value]
      ELSE [x |-> x, u |-> number]

LowerSize(x) == minenv(x, "maxdatabytes", "DATABYTES").x

counters_init(x) == Reply(LowerSize(x), "none")

counters_reset(x) == Reply([LowerSize(x) EXCEPT !.rcpt_count = 0], "none")

TooManyMessages(x) == x.msg_count >= session_getnum(x, "maxmsgs", Unlimited)

\* size is the SIZE parameter of the command, 0 when it has none.
counters_sender(x0, size) ==
  LET x == minenv(x0, "maxmsgs", "MAXMSGS").x
      y == minenv(LowerSize(x), "maxrcpts", "MAXRCPTS").x
  IN  IF TooManyMessages(x) THEN Reply(x, "perm")
      ELSE Reply(y, IF size > session_getnum(y, "maxdatabytes", Unlimited)
                    THEN "perm" ELSE "none")

TooManyRecipients(x, maxrcpts) == maxrcpts > 0 /\ x.rcpt_count > maxrcpts

\* Mutant of counters_recipient: the recipient counts once it is accepted.
counters_recipient_late(x0) ==
  LET m == minenv(x0, "maxrcpts", "MAXRCPTS")
      x == LowerSize(m.x)
  IN  IF TooManyRecipients(x, m.u) THEN Reply(x, "perm")
      ELSE Reply([x EXCEPT !.rcpt_count = @ + 1], "none")

counters_recipient(x0) ==
  LET m == minenv(x0, "maxrcpts", "MAXRCPTS")
      x == [LowerSize(m.x) EXCEPT !.rcpt_count = @ + 1]
  IN  Reply(x, IF TooManyRecipients(x, m.u) THEN "perm" ELSE "none")

\* $MAXRCPTS_REJECT: [x, refused].
RefusedForRecipients(x) ==
  LET m == minenv(x, "maxrcpts", "MAXRCPTS")
  IN  IF IsSet(x, "MAXRCPTS_REJECT")
      THEN [x |-> m.x, refused |-> TooManyRecipients(x, m.u)]
      ELSE [x |-> x, refused |-> FALSE]

\* Mutant of counters_start: the messages were counted for the sender already.
counters_start_any(x0) ==
  LET x == RefusedForRecipients(x0)
  IN  IF x.refused THEN Reply(x.x, "perm")
      ELSE Reply([LowerSize(x.x) EXCEPT !.data_bytes = 0], "none")

counters_start(x0) ==
  LET x == minenv(x0, "maxmsgs", "MAXMSGS").x
      y == RefusedForRecipients(x)
  IN  IF TooManyMessages(x) THEN Reply(x, "perm")
      ELSE IF y.refused THEN Reply(y.x, "perm")
      ELSE Reply([LowerSize(y.x) EXCEPT !.data_bytes = 0], "none")

\* Mutant of counters_block: each block is measured alone.
counters_block_alone(x, len) ==
  Reply([x EXCEPT !.data_bytes = len],
        IF len > session_getnum(x, "maxdatabytes", Unlimited) THEN "perm" ELSE "none")

counters_block(x0, len) ==
  LET x == [x0 EXCEPT !.data_bytes = @ + len]
      maxdatabytes == session_getnum(x, "maxdatabytes", Unlimited)
  IN  Reply(x, IF maxdatabytes > 0 /\ x.data_bytes > maxdatabytes THEN "perm" ELSE "none")

\* The message counts before the backend has had its say.
counters_end(x0) ==
  LET y == RefusedForRecipients(x0)
  IN  IF y.refused THEN Reply(y.x, "perm")
      ELSE Reply([y.x EXCEPT !.msg_count = @ + 1], "none")

=============================================================================
