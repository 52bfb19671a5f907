-------------------------------- MODULE MailText --------------------------------
(***************************************************************************)
(* Programs of mailfront that look at a message one character after the    *)
(* other: dump_msg of pop3front-maildir.c (RETR and TOP), the count of     *)
(* header fields in plugin-counters.c and the patterns of                  *)
(* plugin-patterns.c.  Each is a machine that takes one character; its     *)
(* state is what the code keeps from one buffer or block to the next.      *)
(***************************************************************************)
EXTENDS Integers, Sequences, SequencesExt

CONSTANTS
  BufSize,   \* sizeof buf in dump_msg
  Received, DeliveredTo,  \* "received:" and "delivered-to:", shortened
  Upper,     \* a letter to its capital, itself if it has none
  LineMax,   \* $PATTERNS_LINEMAX
  Patterns   \* records [mode, lines]: a glob stands for the lines it matches

CRLF == <<"CR", "LF">>

(***************************************************************************)
(* dump_msg, with bodylines lines of the body to go.  At the start of a    *)
(* line a period is doubled, and a line of the body counted; once they are *)
(* used up nothing is written any more.  An LF ends the header if it is    *)
(* the first character looked at: of its line, or of its buffer.           *)
(***************************************************************************)
DumpStart(bodylines) ==
  [sol |-> TRUE, in_header |-> TRUE, bodylines |-> bodylines, at |-> 0, out |-> <<>>]

\* Mutant of dump_char: the last line of the body is one too many.
dump_char_extra_line(s, ch) ==
  LET left == IF s.sol /\ ~ s.in_header THEN s.bodylines - 1 ELSE s.bodylines
      dot  == IF s.sol /\ ch = "." THEN <<".">> ELSE <<>>
      first == s.sol \/ s.at % BufSize = 0
      next == [s EXCEPT !.at = @ + 1, !.bodylines = left]
  IN  IF left < -1 THEN [next EXCEPT !.bodylines = -2]
      ELSE IF ch = "LF"
      THEN [next EXCEPT !.in_header = @ /\ ~ first, !.out = @ \o dot \o CRLF, !.sol = TRUE]
      ELSE [next EXCEPT !.out = @ \o dot \o <<ch>>, !.sol = FALSE]

dump_char(s, ch) ==
  LET left == IF s.sol /\ ~ s.in_header THEN s.bodylines - 1 ELSE s.bodylines
      dot  == IF s.sol /\ ch = "." THEN <<".">> ELSE <<>>
      first == s.sol \/ s.at % BufSize = 0
      next == [s EXCEPT !.at = @ + 1, !.bodylines = left]
  IN  IF left < 0 THEN [next EXCEPT !.bodylines = -1]
      ELSE IF ch = "LF"
      THEN [next EXCEPT !.in_header = @ /\ ~ first, !.out = @ \o dot \o CRLF, !.sol = TRUE]
      ELSE [next EXCEPT !.out = @ \o dot \o <<ch>>, !.sol = FALSE]

\* What dump_msg has written by the time it returns.
Dumped(s) == s.out \o CRLF \o <<".">> \o CRLF

(***************************************************************************)
(* The loop of block in plugin-counters.c, which stands still once the     *)
(* header has ended.  linepos stops at the longer of the two names.        *)
(***************************************************************************)
HopsStart ==
  [count_rec |-> 0, count_dt |-> 0, in_header |-> TRUE, linepos |-> 0,
   in_rec |-> TRUE, in_dt |-> TRUE]

Fits(name, i, ch) == ch \in {name[i + 1], Upper[name[i + 1]]}

\* Mutant of hops_char: a name that has been counted goes on counting.
hops_char_again(s, ch) ==
  IF ~ s.in_header THEN s
  ELSE IF ch = "LF"
  THEN LET more == s.linepos # 0
       IN  [s EXCEPT !.in_header = more, !.linepos = 0, !.in_rec = more, !.in_dt = more]
  ELSE IF s.linepos >= Len(DeliveredTo) THEN s
  ELSE LET rec == s.in_rec /\ (s.linepos >= Len(Received) \/ Fits(Received, s.linepos, ch))
       IN  [s EXCEPT !.in_rec = rec, !.linepos = @ + 1,
                     !.count_rec = IF rec /\ s.linepos >= Len(Received) - 1 THEN @ + 1 ELSE @]

hops_char(s, ch) ==
  IF ~ s.in_header THEN s
  ELSE IF ch = "LF"
  THEN LET more == s.linepos # 0
       IN  [s EXCEPT !.in_header = more, !.linepos = 0, !.in_rec = more, !.in_dt = more]
  ELSE IF s.linepos >= Len(DeliveredTo) THEN s
  ELSE LET rec    == s.in_rec /\ Fits(Received, s.linepos, ch)
           recEnd == rec /\ s.linepos >= Len(Received) - 1
           dt     == s.in_dt /\ ~ recEnd /\ Fits(DeliveredTo, s.linepos, ch)
           dtEnd  == dt /\ s.linepos >= Len(DeliveredTo) - 1
       IN  [s EXCEPT !.in_rec = rec /\ ~ recEnd /\ ~ dtEnd,
                     !.in_dt  = dt /\ ~ dtEnd,
                     !.count_rec = IF recEnd THEN @ + 1 ELSE @,
                     !.count_dt  = IF dtEnd THEN @ + 1 ELSE @,
                     !.linepos = @ + 1]

(***************************************************************************)
(* check of plugin-patterns.c: lines of up to LineMax characters are put   *)
(* together, and a line that is not empty is held against the patterns of  *)
(* its mode.                                                               *)
(***************************************************************************)
PatternsStart == [linemode |-> "header", linebuf |-> <<>>, refused |-> FALSE]

check_line(s) ==
  \E p \in Patterns : p.mode \in {"normal", s.linemode} /\ s.linebuf \in p.lines

check_char(s, ch) ==
  CASE s.refused -> s
    [] ch # "LF" -> IF Len(s.linebuf) < LineMax
                    THEN [s EXCEPT !.linebuf = Append(@, ch)] ELSE s
    [] s.linebuf = <<>> -> [s EXCEPT !.linemode = "after_blank"]
    [] OTHER -> [s EXCEPT !.refused = check_line(s), !.linebuf = <<>>,
                          !.linemode = IF @ = "header" THEN @ ELSE "normal"]

=============================================================================
