------------------------------ MODULE Responses ------------------------------
(***************************************************************************)
(* The answers that every hook of mailfront returns, and the rule by which *)
(* the container (mailfront.c) makes one answer out of the answers of a    *)
(* chain of plugins.                                                       *)
(*                                                                         *)
(* A response is a three digit number with an optional FINAL bit, or a     *)
(* null pointer.  The code never tells two numbers of one class apart, so  *)
(* a response is one of:                                                   *)
(*   "none"   the null pointer: no opinion                                 *)
(*   "ok"     a number below 400                                           *)
(*   "final"  a number below 400 with RESPONSE_FINAL set                   *)
(*   "temp"   a number in 400 .. 499                                       *)
(*   "perm"   a number of 500 or more                                      *)
(***************************************************************************)
EXTENDS Integers, Sequences, FiniteSetsExt

Response == {"none", "ok", "final", "temp", "perm"}

response_ok(r) == r \notin {"temp", "perm"}

(***************************************************************************)
(* MODULE_CALL: answers[i] is what the i-th plugin of session.plugin_list  *)
(* that has the hook would return.  The first error ends the call and is   *)
(* its result; the first final answer ends it too, and replaces what came  *)
(* before; otherwise the first answer that is not null stands, where resp  *)
(* is what the handler already had.                                        *)
(***************************************************************************)
Ends(answer) == answer = "final" \/ ~ response_ok(answer)

MODULE_CALL(resp, answers) ==
  LET ending == {i \in DOMAIN answers : Ends(answers[i])}
      given  == {i \in DOMAIN answers : answers[i] # "none"}
  IN  IF ending # {} THEN answers[Min(ending)]
      ELSE IF resp # "none" \/ given = {} THEN resp
      ELSE answers[Min(given)]

\* The loop of handle_data_bytes, which knows errors only.
FirstError(answers) ==
  LET bad == {i \in DOMAIN answers : ~ response_ok(answers[i])}
  IN  IF bad = {} THEN "none" ELSE answers[Min(bad)]

=============================================================================
