--------------------------------- MODULE Texts ---------------------------------
(***************************************************************************)
(* The parsers and scanners of SmtpText, MailText and ImapFront, each fed  *)
(* with every text of some length, against what the text means line by     *)
(* line.  A behaviour is about one of them, kind:                          *)
(*   "body", "dump", "hops", "patterns"   take one character at a time     *)
(*   "address"   takes the characters of an address; the argument of MAIL  *)
(*               is made of it afterwards                                  *)
(*   "imap"      takes the lines of a client, made of arguments in one of  *)
(*               their three forms                                         *)
(***************************************************************************)
EXTENDS SmtpText, MailText, ImapFront

CONSTANTS
  Kind,
  Alphabet,  \* kind to its characters
  MaxLength, \* kind to the bound on the length of its text
  TopLines,  \* lines asked for with TOP; one of them, more than there are, is RETR
  ImapCommand, ImapString,  \* words, and the values of arguments
  MaxArgs,   \* bound on the arguments of a line
  MaxLines   \* bound on the lines of an IMAP client

VARIABLES
  kind,
  text,   \* the characters taken so far; of an IMAP client's line, not kept
  st,     \* the state of the machine
  todo,   \* IMAP: characters sent and not yet taken
  line,   \* IMAP: the line as meant, [cmd, args]
  session \* IMAP: [auth_count, lines, failed, then]

vars == <<kind, text, st, todo, line, session>>

NoLine == [cmd |-> <<>>, args |-> <<>>]
NewSession == [auth_count |-> 0, lines |-> 0, failed |-> 0, then |-> "on"]

Start(k) ==
  CASE k = "body" -> {BodyStart}
    [] k = "dump" -> {DumpStart(n) : n \in TopLines}
    [] k = "hops" -> {HopsStart}
    [] k = "patterns" -> {PatternsStart}
    [] k = "imap" -> {NewLine}
    [] OTHER -> {"none"}

Init ==
  /\ kind \in Kind
  /\ st \in Start(kind)
  /\ text = (IF kind = "dump" THEN <<st.bodylines>> ELSE <<>>)
  /\ todo = <<>> /\ line = NoLine /\ session = NewSession

\* Text of "dump" begins with the number of lines asked for.
Chars == IF kind = "dump" THEN Tail(text) ELSE text

Feed(ch) ==
  /\ kind # "imap" /\ Len(Chars) < MaxLength[kind]
  /\ text' = Append(text, ch)
  /\ st' = CASE kind = "body" -> copy_body(st, ch)
             [] kind = "dump" -> dump_char(st, ch)
             [] kind = "hops" -> hops_char(st, ch)
             [] kind = "patterns" -> check_char(st, ch)
             [] OTHER -> st
  /\ UNCHANGED <<kind, todo, line, session>>

(***************************************************************************)
(* The IMAP client writes a command, then arguments: as an atom, quoted    *)
(* with its special characters escaped, or as a literal.  It waits for the *)
(* "+" before the octets of a literal: when a line is refused at the end   *)
(* of a length they are not sent.                                          *)
(***************************************************************************)
Special == {"QUOTE", "ESCAPE"}

QuotedForm(s) ==
  LET escaped == FlattenSeq([i \in DOMAIN s |->
                   IF s[i] \in Special THEN <<"ESCAPE", s[i]>> ELSE <<s[i]>>])
  IN  <<"QUOTE">> \o escaped \o <<"QUOTE">>

LiteralForm(s) ==
  LET digit == CHOOSE d \in DOMAIN Digit : Digit[d] = Len(s)
  IN  <<"{", digit, "}", "LF">> \o s

Forms(s) ==
  {LiteralForm(s)}
  \cup (IF "LF" \in Range(s) THEN {} ELSE {QuotedForm(s)})
  \cup (IF s = <<>> \/ Range(s) \cap (Special \cup {" ", "LF"}) # {} THEN {} ELSE {s})

ImapIdle == kind = "imap" /\ todo = <<>> /\ session.then = "on"

ImapCommandSent(c) ==
  /\ ImapIdle /\ line = NoLine /\ session.lines < MaxLines
  /\ line' = [NoLine EXCEPT !.cmd = <<c>>]
  /\ todo' = <<"t", " ", c>>
  /\ UNCHANGED <<kind, text, st, session>>

ImapArgSent(s) ==
  /\ ImapIdle /\ line # NoLine /\ Len(line.args) < MaxArgs
  /\ st.mode \notin {"parsed", "bad"}
  /\ line' = [line EXCEPT !.args = Append(@, s)]
  /\ \E form \in Forms(s) : todo' = <<" ">> \o form
  /\ UNCHANGED <<kind, text, st, session>>

ImapLineEnds ==
  /\ ImapIdle /\ line # NoLine /\ st.mode \notin {"parsed", "bad"}
  /\ todo' = <<"LF">>
  /\ UNCHANGED <<kind, text, st, line, session>>

ImapChar ==
  /\ kind = "imap" /\ todo # <<>>
  /\ st' = parse_char(st, Head(todo))
  /\ todo' = IF st'.mode = "bad" THEN <<>> ELSE Tail(todo)
  /\ UNCHANGED <<kind, text, line, session>>

\* main: dispatch_line after a line that parses, and the next line.
ImapDispatch ==
  /\ ImapIdle /\ st.mode \in {"parsed", "bad"}
  /\ LET does == IF st.mode = "parsed" THEN dispatch_line(st) ELSE "reply"
         next == [session EXCEPT !.lines = @ + 1]
     IN  session' \in
           CASE does = "reply" -> {next}
             [] does = "exit"  -> {[next EXCEPT !.then = "exit"]}
             [] OTHER -> {[next EXCEPT !.auth_count = a.auth_count, !.then = a.then,
                                       !.failed = IF a.then = "exec" THEN @ ELSE @ + 1] :
                            a \in Authenticated(session.auth_count)}
  /\ st' = NewLine /\ line' = NoLine
  /\ UNCHANGED <<kind, text, todo>>

Next ==
  \/ \E ch \in Alphabet[kind] : Feed(ch)
  \/ \E c \in ImapCommand : ImapCommandSent(c)
  \/ \E s \in ImapString : ImapArgSent(s)
  \/ ImapLineEnds \/ ImapChar \/ ImapDispatch

Spec == Init /\ [][Next]_vars

(***************************************************************************)
(* Lines of a text: those that an LF ends, and what follows the last LF.   *)
(***************************************************************************)
LineEnds(s) == {i \in DOMAIN s : s[i] = "LF"}
LineStarts(s) == {1} \cup {i + 1 : i \in LineEnds(s)}
LineAt(s, i) == SubSeq(s, i, Min({j - 1 : j \in {k \in LineEnds(s) : k >= i}} \cup {Len(s)}))
Starts(s, i, word) == i + Len(word) - 1 <= Len(s) /\ SubSeq(s, i, i + Len(word) - 1) = word

\* The lines' values, each from its place, put together in order.
Together(places, value(_)) ==
  FlattenSeq([i \in 1 .. Max(places \cup {0}) |-> IF i \in places THEN value(i) ELSE <<>>])

WithoutCR(s) == IF s # <<>> /\ Last(s) = "CR" THEN Front(s) ELSE s
WithoutDot(s) == IF s # <<>> /\ s[1] = "." THEN Tail(s) ELSE s

(***************************************************************************)
(* BodyIsUnstuffed: when a line has ended, the body is the lines that came *)
(* before the first that is a period alone, each without the CR before its *)
(* LF and without one leading period; and that line, and no other, ends    *)
(* it, wherever CR, LF and periods fall (protocol-smtp.c copy_body).  Left *)
(* out are texts with a line that begins CR period: there the code drops   *)
(* the period although the comment says it was the first character.        *)
(***************************************************************************)
BodyIsUnstuffed ==
  LET stops == {i \in LineStarts(text) :
                  i <= Len(text) /\ WithoutCR(LineAt(text, i)) = <<".">>}
      upTo  == {i \in LineStarts(text) : i <= Len(text) /\ \A j \in stops : i < j}
      Line(i) == WithoutDot(WithoutCR(LineAt(text, i))) \o <<"LF">>
  IN  /\ kind = "body" /\ text # <<>> /\ Last(text) = "LF"
      /\ ~ \E i \in LineStarts(text) : Starts(text, i, <<"CR", ".">>)
      => /\ st.done = (stops # {})
         /\ st.out = Together(upTo, Line)

(***************************************************************************)
(* RetrIsStuffed: what RETR and TOP write is the lines of the message,     *)
(* each with one more period if it begins with one and with CRLF at its    *)
(* end: the header, the blank line and no more lines than asked for.  One  *)
(* more CRLF follows, and then the period that ends it, as the tests have  *)
(* it (pop3front-maildir.c dump_msg).  Left out are messages of which the  *)
(* LF of a line of the header is the first octet of a new buffer.          *)
(***************************************************************************)
RetrIsStuffed ==
  LET asked == text[1]
      blank == {i \in LineStarts(Chars) : i <= Len(Chars) /\ Chars[i] = "LF"}
      header == IF blank = {} THEN LineStarts(Chars) ELSE {i \in LineStarts(Chars) : i <= Min(blank)}
      body  == {i \in LineStarts(Chars) \ header : i <= Len(Chars)}
      shown == {i \in header \cup body : Cardinality({j \in body : j <= i}) <= asked}
      Line(i) == (IF Starts(Chars, i, <<".">>) THEN <<".">> ELSE <<>>) \o LineAt(Chars, i)
                 \o (IF \E j \in LineEnds(Chars) : j >= i THEN CRLF ELSE <<>>)
      cut   == \E i \in LineEnds(Chars) : (i - 1) % BufSize = 0 /\ i > 1 /\ Chars[i - 1] # "LF"
                                          /\ \A b \in blank : i < b
  IN  kind = "dump" /\ ~ cut => Dumped(st) = Together(shown, Line) \o CRLF \o <<".">> \o CRLF

Lower(s) == [i \in DOMAIN s |-> IF \E c \in DOMAIN Upper : Upper[c] = s[i]
                                THEN CHOOSE c \in DOMAIN Upper : Upper[c] = s[i] ELSE s[i]]

(***************************************************************************)
(* LinesAreScanned: counters has counted the lines of the header, and only *)
(* those, that begin with either name in any case; patterns has refused    *)
(* the message if and only if one of its lines that are complete matches a *)
(* pattern for any line, for the lines before the first blank one, or for  *)
(* the line after a blank one (plugin-counters.c block, plugin-patterns.c  *)
(* check and check_line).                                                  *)
(***************************************************************************)
LinesAreScanned ==
  LET blank   == {i \in LineStarts(text) : i <= Len(text) /\ text[i] = "LF"}
      header  == {i \in LineStarts(text) : \A b \in blank : i < b}
      Named(name) == {i \in header : Starts(Lower(text), i, name)}
      whole   == {i \in LineStarts(text) \ blank : \E j \in LineEnds(text) : j >= i}
      Matches(i, p) ==
        LET l == LineAt(text, i)
        IN  /\ SubSeq(l, 1, Min({Len(l), LineMax})) \in p.lines
            /\ p.mode = "header" => i \in header
            /\ p.mode = "after_blank" => i - 1 \in blank
  IN  /\ kind = "hops" => /\ st.count_rec = Cardinality(Named(Received))
                          /\ st.count_dt = Cardinality(Named(DeliveredTo))
      /\ kind = "patterns" => st.refused = (\E i \in whole, p \in Patterns : Matches(i, p))

Escaped(s) == FlattenSeq([i \in DOMAIN s |-> <<"ESCAPE", s[i]>>])

\* An address without its route: what follows the first colon if it begins with @.
WithoutRoute(s) ==
  LET colons == {i \in DOMAIN s : s[i] = ":"}
  IN  IF s # <<>> /\ s[1] = "@" /\ colons # {} THEN SubSeq(s, Min(colons) + 1, Len(s)) ELSE s

(***************************************************************************)
(* AddressIsParsed: an address in angle brackets, its characters escaped   *)
(* or between quotes, is understood as it is, without its route, and the   *)
(* parameters after it are found; so is one without brackets (its route    *)
(* goes only if parameters follow), unless it is empty; an argument that   *)
(* lacks its closing bracket is refused (protocol-smtp.c parse_addr_arg).  *)
(***************************************************************************)
AddressIsParsed ==
  LET to == <<"T", "O", ":">>
      params == <<" ", " ", "S", " ", "B">>
      Is(r, a, p) == r.ok /\ r.addr = a /\ r.params = p
      quotable == {"QUOTE", "ESCAPE"} \cap Range(text) = {}
      plain == ({"QUOTE", "ESCAPE", "<", " "} \cap Range(text) = {}) /\ text # <<>>
      bracketed == to \o <<"<">> \o Escaped(text)
  IN  kind = "address" =>
        /\ Is(parse_addr_arg(bracketed \o <<">">> \o params), WithoutRoute(text), <<"S", "NUL", "B">>)
        /\ ~ parse_addr_arg(bracketed).ok
        /\ quotable => Is(parse_addr_arg(to \o <<" ", "<", "QUOTE">> \o text \o <<"QUOTE", ">">>),
                          WithoutRoute(text), <<>>)
        /\ plain => /\ Is(parse_addr_arg(to \o <<" ">> \o text), text, <<>>)
                    /\ Is(parse_addr_arg(to \o text \o params),
                          WithoutRoute(text), <<"S", "NUL", "B">>)

(***************************************************************************)
(* ImapIsUnderstood: a line is parsed into the command and the arguments   *)
(* that the client meant, in whatever form each was sent, and refused if   *)
(* and only if it has more than MAX_ARGC; and failed attempts, of LOGIN    *)
(* and AUTHENTICATE together, stay within $MAXAUTHFAIL (imapfront-auth.c   *)
(* parse_line, cmd_login, cmd_authenticate).                               *)
(***************************************************************************)
ImapIsUnderstood ==
  kind = "imap" =>
    /\ st.mode = "parsed" => st.cmd = line.cmd /\ st.args = line.args
    /\ st.mode \in {"bad", "skip"} => Len(line.args) > MAX_ARGC
    /\ todo = <<>> /\ st.mode = "parsed" => Len(line.args) <= MAX_ARGC
    /\ AuthMax > 0 => session.failed <= AuthMax

=============================================================================
