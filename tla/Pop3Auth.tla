------------------------------- MODULE Pop3Auth -------------------------------
(***************************************************************************)
(* The first stage of a POP3 session, pop3front-auth.c: the state it keeps *)
(* and what its commands do to it.  Each returns the set of its outcomes,  *)
(* [auth, then]: "on" to read the next command, "exit" when the process    *)
(* ends, "exec" when the second stage replaces it.  The authenticator is   *)
(* external and may accept, refuse or fail; so may becoming the user and   *)
(* executing the next program.                                             *)
(*   user        a USER command was accepted and not used up               *)
(*   refused     answers of the authenticator other than acceptance (not   *)
(*               in the code, whose count is auth_count)                   *)
(***************************************************************************)
EXTENDS Naturals

CONSTANTS
  UserMax,  \* $MAXUSERCMD and $MAXAUTHFAIL; 0 is no limit
  AuthMax,
  AuthBound \* without a limit counts stop here (a bound)

ASSUME Pop3AuthAssumption == {UserMax, AuthMax, AuthBound} \subseteq Nat

Count == 0 .. AuthBound
Auth == [user : BOOLEAN, user_count : Count, auth_count : Count, refused : Count]
NoAuth == [user |-> FALSE, user_count |-> 0, auth_count |-> 0, refused |-> 0]

Outcome(a, then) == [auth |-> a, then |-> then]

Bump(n) == IF n < AuthBound THEN n + 1 ELSE n

\* cvm_setugid, cvm_setenv or execvp may fail; none of them returns to the dialogue.
do_exec(a) == {Outcome(a, "exec"), Outcome(a, "exit")}

\* Mutant of Failed: the limit is tested before the failure is counted.
Failed_off_by_one(a) ==
  LET b == [a EXCEPT !.auth_count = Bump(@), !.refused = Bump(@)]
  IN  {Outcome(b, IF AuthMax > 0 /\ a.auth_count >= AuthMax THEN "exit" ELSE "on")}

Failed(a) ==
  LET b == [a EXCEPT !.auth_count = Bump(@), !.refused = Bump(@)]
  IN  {Outcome(b, IF AuthMax > 0 /\ b.auth_count >= AuthMax THEN "exit" ELSE "on")}

auth(a) == do_exec(a) \cup Failed(a)

user(a) ==
  LET b == [a EXCEPT !.user_count = Bump(@)]
  IN  IF UserMax > 0 /\ b.user_count > UserMax THEN {Outcome(b, "exit")}
      ELSE {Outcome([b EXCEPT !.user = TRUE], "on")}

\* PASS uses the name up, so that the next attempt needs another USER.
pass(a) ==
  IF ~ a.user THEN {Outcome(a, "on")}
  ELSE do_exec(a) \cup Failed([a EXCEPT !.user = FALSE])

=============================================================================
