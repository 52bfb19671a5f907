------------------------------- MODULE ImapFront -------------------------------
(***************************************************************************)
(* imapfront-auth.c: the parser of a command line, which literals continue *)
(* over further lines, and the commands up to the login.  parse_line reads *)
(* from the connection while it parses, so it is a machine that takes one  *)
(* character at a time, the end of a line being "LF".  Its state:          *)
(*   mode  where in parse_line it is                                       *)
(*   tag, cmd, args   what it has put together                             *)
(*   cur   the argument it is at; len, the octets a literal lacks          *)
(* mode "parsed" and "bad" are its two returns, after which it is called   *)
(* anew, from NewLine.                                                     *)
(***************************************************************************)
EXTENDS Integers, Sequences

CONSTANTS
  MAX_ARGC,
  AuthMax,   \* $MAXAUTHFAIL; 0 is no limit
  Digit      \* a digit to its value

NewLine == [mode |-> "tag", tag |-> <<>>, cmd |-> <<>>, args |-> <<>>, cur |-> <<>>, len |-> -1]

\* A word of the command line ends at a space; gap is where it goes then.
Word(p, field, ch, gap, atEnd) ==
  IF ch = "LF" THEN [p EXCEPT !.mode = IF field = "cmd" /\ p.cmd # <<>> THEN atEnd ELSE "bad"]
  ELSE IF ch # " " THEN [p EXCEPT ![field] = Append(@, ch)]
  ELSE IF p[field] # <<>> THEN [p EXCEPT !.mode = gap] ELSE p

\* The rest of a line with an error in it is not looked at; what comes after
\* its LF, the octets of a literal that was refused too, is the next line.
Bad(p, ch) == [p EXCEPT !.mode = IF ch = "LF" THEN "bad" ELSE "skip"]

\* str_truncate at the head of the loop, and the argument's first character.
ArgBegins(p, ch) ==
  CASE ch = " "  -> p
    [] ch = "LF" -> [p EXCEPT !.mode = "parsed"]
    [] Len(p.args) = MAX_ARGC -> Bad(p, ch)
    [] ch = "{"  -> [p EXCEPT !.mode = "number", !.cur = <<>>, !.len = -1]
    [] ch = "QUOTE" -> [p EXCEPT !.mode = "quoted", !.cur = <<>>]
    [] OTHER -> [p EXCEPT !.mode = "atom", !.cur = <<ch>>]

ArgEnds(p, mode) == [p EXCEPT !.args = Append(@, p.cur), !.cur = <<>>, !.mode = mode]

Atom(p, ch) ==
  CASE ch = " "  -> ArgEnds(p, "gap")
    [] ch = "LF" -> ArgEnds(p, "parsed")
    [] OTHER     -> [p EXCEPT !.cur = Append(@, ch)]

\* Mutant of Quoted: the character after an escape is not special, nor kept.
Quoted_dropping(p, ch) ==
  CASE ch = "LF" -> Bad(p, ch)
    [] p.mode = "escaped" -> [p EXCEPT !.mode = "quoted"]
    [] ch = "ESCAPE" -> [p EXCEPT !.mode = "escaped"]
    [] ch = "QUOTE" -> ArgEnds(p, "gap")
    [] OTHER -> [p EXCEPT !.cur = Append(@, ch)]

Quoted(p, ch) ==
  CASE ch = "LF" -> Bad(p, ch)
    [] p.mode = "escaped" -> [p EXCEPT !.mode = "quoted", !.cur = Append(@, ch)]
    [] ch = "ESCAPE" -> [p EXCEPT !.mode = "escaped"]
    [] ch = "QUOTE" -> ArgEnds(p, "gap")
    [] OTHER -> [p EXCEPT !.cur = Append(@, ch)]

(***************************************************************************)
(* The length of a literal: digits, the brace, the end of the line.  (When *)
(* the line ends before the brace the code looks at a character that it    *)
(* has not read; the inputs here have their brace.)                        *)
(***************************************************************************)
Number(p, ch) ==
  CASE ch \in DOMAIN Digit -> [p EXCEPT !.len = Digit[ch] + 10 * (IF @ = -1 THEN 0 ELSE @)]
    [] ch = "}" /\ p.len # -1 -> [p EXCEPT !.mode = "brace"]
    [] OTHER -> Bad(p, ch)

LiteralBegins(p, ch) ==
  CASE ch # "LF" -> Bad(p, ch)
    [] p.len = 0 -> ArgEnds(p, "gap")
    [] OTHER     -> [p EXCEPT !.mode = "literal"]

\* The octets of a literal are taken as they come, line ends too.
Literal(p, ch) ==
  LET q == [p EXCEPT !.cur = Append(@, ch), !.len = @ - 1]
  IN  IF q.len = 0 THEN ArgEnds(q, "gap") ELSE q

parse_char(p, ch) ==
  CASE p.mode = "tag" -> Word(p, "tag", ch, "cmd", "bad")
    [] p.mode = "cmd" -> Word(p, "cmd", ch, "gap", "parsed")
    [] p.mode = "gap" -> ArgBegins(p, ch)
    [] p.mode = "atom" -> Atom(p, ch)
    [] p.mode \in {"quoted", "escaped"} -> Quoted(p, ch)
    [] p.mode = "number" -> Number(p, ch)
    [] p.mode = "brace" -> LiteralBegins(p, ch)
    [] p.mode = "literal" -> Literal(p, ch)
    [] p.mode = "skip" -> Bad(p, ch)

(***************************************************************************)
(* dispatch_line: what a parsed line asks of the authenticator, or that it *)
(* asks nothing.                                                           *)
(***************************************************************************)
dispatch_line(p) ==
  CASE p.cmd = <<"LOGIN">> /\ Len(p.args) = 2 -> "password"
    [] p.cmd = <<"AUTHENTICATE">> /\ Len(p.args) \in {1, 2} -> "sasl"
    [] p.cmd = <<"LOGOUT">> /\ p.args = <<>> -> "exit"
    [] OTHER -> "reply"

(***************************************************************************)
(* cmd_login and cmd_authenticate: do_exec ends this program in any case;  *)
(* an attempt that fails is counted, and the last one allowed ends it too. *)
(***************************************************************************)
Authenticated(auth_count) ==
  {[auth_count |-> auth_count, then |-> "exec"], [auth_count |-> auth_count, then |-> "exit"],
   [auth_count |-> auth_count + 1,
    then |-> IF AuthMax > 0 /\ auth_count + 1 >= AuthMax THEN "exit" ELSE "on"]}

=============================================================================
