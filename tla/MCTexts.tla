-------------------------------- MODULE MCTexts --------------------------------
(***************************************************************************)
(* Bounds for Texts: the characters that each machine tells apart, texts   *)
(* long enough for a header, a blank line and a body; names of header      *)
(* fields shortened to two and three letters of which one is shared.       *)
(***************************************************************************)
EXTENDS Texts, TLC

MCAlphabet ==
  [k \in Kind |->
     CASE k = "body" -> {"CR", "LF", ".", "a"}
       [] k = "dump" -> {"LF", ".", "a"}
       [] k = "hops" -> {"r", "R", "d", ":", "LF"}
       [] k = "patterns" -> {"a", "b", "LF"}
       [] k = "address" -> {"a", "@", ":", ">", "<", " ", "QUOTE", "ESCAPE"}
       [] OTHER -> {}]

MCMaxLength ==
  [k \in Kind |-> CASE k = "address" -> 5 [] k \in {"hops", "body"} -> 7 [] OTHER -> 8]

MCReceived == <<"r", ":">>
MCDeliveredTo == <<"d", "r", ":">>
MCUpper == [c \in {"r", "d", ":"} |-> CASE c = "r" -> "R" [] c = "d" -> "D" [] OTHER -> c]

MCPatterns ==
  {[mode |-> "header", lines |-> {<<"a">>}],
   [mode |-> "after_blank", lines |-> {<<"b">>}],
   [mode |-> "normal", lines |-> {<<"b", "b">>, <<"a", "a">>}]}

MCDigit == [d \in {"0", "1", "2"} |-> CASE d = "0" -> 0 [] d = "1" -> 1 [] OTHER -> 2]

MCImapString ==
  {<<>>, <<"a">>, <<"ESCAPE">>, <<"a", "QUOTE">>, <<" ", "a">>, <<"LF", "{">>}

=============================================================================
