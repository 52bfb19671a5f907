------------------------------- MODULE SmtpText -------------------------------
(***************************************************************************)
(* What protocol-smtp.c reads out of the client's characters: the body of  *)
(* a message (copy_body, a machine that takes one character at a time) and *)
(* the address of MAIL and RCPT (parse_addr_arg).  A character is a string *)
(* of one letter, or "CR", "LF", "NUL".                                    *)
(***************************************************************************)
EXTENDS Integers, Sequences, SequencesExt

\* linepos counts the bytes of the line that were passed on.
BodyStart == [sawcr |-> FALSE, linepos |-> 0, sawperiod |-> FALSE, out |-> <<>>, done |-> FALSE]

\* data_byte, of all the given characters.
data_byte(s, chars) ==
  [s EXCEPT !.out = @ \o chars, !.linepos = @ + Len(chars)]

HeldCR(s) == IF s.sawcr THEN <<"CR">> ELSE <<>>

\* Mutant of copy_body: a second period is taken away as well.
copy_body_all_periods(s, ch) ==
  CASE s.done -> s
    [] ch = "LF" -> IF s.sawperiod /\ s.linepos = 0 THEN [s EXCEPT !.done = TRUE]
                    ELSE [data_byte(s, <<"LF">>) EXCEPT
                            !.sawperiod = FALSE, !.sawcr = FALSE, !.linepos = 0]
    [] ch = "CR" -> [data_byte(s, HeldCR(s)) EXCEPT !.sawcr = TRUE]
    [] ch = "." /\ s.linepos = 0 -> [s EXCEPT !.sawperiod = TRUE]
    [] OTHER -> [data_byte(s, HeldCR(s) \o <<ch>>) EXCEPT !.sawperiod = FALSE, !.sawcr = FALSE]

(***************************************************************************)
(* The switch of copy_body.  A CR waits for its LF; the first period of a  *)
(* line is held back, and ends the message if nothing else follows on it.  *)
(***************************************************************************)
copy_body(s, ch) ==
  CASE s.done -> s
    [] ch = "LF" -> IF s.sawperiod /\ s.linepos = 0 THEN [s EXCEPT !.done = TRUE]
                    ELSE [data_byte(s, <<"LF">>) EXCEPT
                            !.sawperiod = FALSE, !.sawcr = FALSE, !.linepos = 0]
    [] ch = "CR" -> [data_byte(s, HeldCR(s)) EXCEPT !.sawcr = TRUE]
    [] ch = "." /\ ~ s.sawperiod /\ s.linepos = 0 -> [s EXCEPT !.sawperiod = TRUE]
    [] OTHER -> [data_byte(s, HeldCR(s) \o <<ch>>) EXCEPT !.sawperiod = FALSE, !.sawcr = FALSE]

\* The first place of ch in s, 0 if there is none.
Find(s, ch) ==
  LET at == {i \in DOMAIN s : s[i] = ch} IN IF at = {} THEN 0 ELSE Min(at)

RECURSIVE SkipSpaces(_, _)
SkipSpaces(s, i) == IF i <= Len(s) /\ s[i] = " " THEN SkipSpaces(s, i + 1) ELSE i

\* The loop over the address: [addr, next], next being past the terminator.
RECURSIVE scan_addr(_, _, _, _, _)
scan_addr(arg, i, term, quoted, addr) ==
  IF i > Len(arg) \/ (~ quoted /\ arg[i] = term) THEN [addr |-> addr, next |-> i + 1]
  ELSE CASE arg[i] = "QUOTE" -> scan_addr(arg, i + 1, term, ~ quoted, addr)
         [] arg[i] = "ESCAPE" ->
              scan_addr(arg, i + 2, term, quoted,
                        Append(addr, IF i < Len(arg) THEN arg[i + 1] ELSE "NUL"))
         [] OTHER -> scan_addr(arg, i + 1, term, quoted, Append(addr, arg[i]))

\* Mutant of strip_route: a route is cut to its last colon.
strip_route_last(addr) ==
  LET colons == {i \in DOMAIN addr : addr[i] = ":"}
  IN  IF addr # <<>> /\ addr[1] = "@" /\ colons # {}
      THEN SubSeq(addr, Max(colons) + 1, Len(addr)) ELSE addr

\* Source routing is stripped: @relay,@relay:address.
strip_route(addr) ==
  IF addr # <<>> /\ addr[1] = "@" /\ Find(addr, ":") # 0
  THEN SubSeq(addr, Find(addr, ":") + 1, Len(addr)) ELSE addr

BadAddr == [ok |-> FALSE, addr |-> <<>>, params |-> <<>>]

(***************************************************************************)
(* Between angle brackets if there is a "<" anywhere; else after the first *)
(* colon, or space, up to a space.  Only an address without brackets may   *)
(* end with the line, and not be empty.                                    *)
(***************************************************************************)
parse_addr_arg(arg) ==
  LET brace == Find(arg, "<")
      sep   == IF Find(arg, ":") # 0 THEN Find(arg, ":") ELSE Find(arg, " ")
      term  == IF brace # 0 THEN ">" ELSE " "
      first == IF brace # 0 THEN brace + 1 ELSE SkipSpaces(arg, sep + 1)
      got   == scan_addr(arg, first, term, FALSE, <<>>)
      rest  == SkipSpaces(arg, got.next)
      Ok(params) == [ok |-> TRUE, addr |-> strip_route(got.addr), params |-> params]
  IN  IF brace = 0 /\ sep = 0 THEN BadAddr
      ELSE IF got.next > Len(arg) + 1
      THEN IF got.addr # <<>> /\ term = " "
           THEN [ok |-> TRUE, addr |-> got.addr, params |-> <<>>] ELSE BadAddr
      ELSE Ok([i \in 1 .. Len(arg) - rest + 1 |->
                 IF arg[rest + i - 1] = " " THEN "NUL" ELSE arg[rest + i - 1]])

=============================================================================
