----------------------------- MODULE SessionStore -----------------------------
(***************************************************************************)
(* What plugins share through session.c: an environment of the session's   *)
(* own, laid over that of the process, and a table of numbers.  They are   *)
(* the fields env and nums of a session record x:                          *)
(*   env   the assignments <<name, value>> put there since the last reset; *)
(*         a name may have several, and none replaces another              *)
(*   nums  a function from the names that have a number to that number     *)
(* A value is the number it spells, 0 when it spells none.                 *)
(***************************************************************************)
EXTENDS Integers, FiniteSetsExt, Functions

CONSTANT Environ  \* the environment of the process: names to values

Unlimited == 999  \* ~0UL
UnsignedLong == 0 .. Unlimited

ASSUME SessionStoreAssumption == \A name \in DOMAIN Environ : Environ[name] \in UnsignedLong

\* Every value of the name, of the process and of the session.
ValuesOf(x, name) ==
  {a[2] : a \in {b \in x.env : b[1] = name}}
  \cup (IF name \in DOMAIN Environ THEN {Environ[name]} ELSE {})

\* session_getenv, of which the models need only whether it finds a value.
IsSet(x, name) == ValuesOf(x, name) # {}

\* The smallest value that is not zero, else zero.
session_getenvu(x, name) ==
  LET values == ValuesOf(x, name) \ {0}
  IN  IF values = {} THEN 0 ELSE Min(values)

\* session_putenv, of each assignment in a set.
session_putenv(x, assignments) == [x EXCEPT !.env = @ \cup assignments]

session_resetenv(x) == [x EXCEPT !.env = {}]

session_hasnum(x, name) == name \in DOMAIN x.nums
session_getnum(x, name, dflt) == IF session_hasnum(x, name) THEN x.nums[name] ELSE dflt
session_setnum(x, name, value) ==
  [x EXCEPT !.nums = [n \in {name} \cup DOMAIN @ |-> IF n = name THEN value ELSE @[n]]]
session_delnum(x, name) == [x EXCEPT !.nums = Restrict(@, DOMAIN @ \ {name})]

=============================================================================
