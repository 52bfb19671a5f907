-------------------------------- MODULE MCPop3 --------------------------------
(***************************************************************************)
(* Bounds for Pop3: two messages of an age, in every combination of        *)
(* places and flags that the steps tell apart, or not yet delivered; the   *)
(* name of 2 carries its size.                                             *)
(***************************************************************************)
EXTENDS Pop3, TLC

MCStamp == <<1, 1>>
MCUid == <<"a", "a">>
MCBytes == <<1, 2>>

File(d, m, i) == [dir |-> d, id |-> m, info |-> i]

MCFirstFiles ==
  {{}, {File("cur", 1, "1")},
   {File("cur", 1, "2"), File("cur", 2, "none")},
   {File("new", 1, "none"), File("new", 2, "none")}}

SessionSymmetry == Permutations(Session)

=============================================================================
