--------------------------- MODULE Responses_proof ---------------------------
(***************************************************************************)
(* What MODULE_CALL and FirstError return, for chains of any length.       *)
(***************************************************************************)
EXTENDS Responses, TLAPS, WellFoundedInduction

\* A nonempty set of positions has a first one.
LEMMA MinOfPositions ==
  ASSUME NEW S \in SUBSET Nat, S # {}
  PROVE  Min(S) \in S /\ \A i \in S : Min(S) <= i
<1>1. PICK x \in S : \A y \in S : ~ (<<y, x>> \in OpToRel(<, Nat))
  BY NatLessThanWellFounded, WFMin
<1>2. ASSUME NEW y \in S, y < x
      PROVE  <<y, x>> \in OpToRel(<, Nat)
  BY <1>2 DEF OpToRel
<1>3. \A y \in S : x <= y
  <2> SUFFICES ASSUME NEW y \in S, ~ (x <= y) PROVE FALSE
    OBVIOUS
  <2>1. y < x
    OBVIOUS
  <2> QED BY <1>1, <1>2, <2>1
<1> QED BY <1>3 DEF Min

\* The chain's answer is one of the answers, or what the handler had.
LEMMA ModuleCallType ==
  ASSUME NEW resp \in Response, NEW answers \in Seq(Response)
  PROVE  MODULE_CALL(resp, answers) \in Response
<1> DEFINE ending == {i \in DOMAIN answers : Ends(answers[i])}
           given  == {i \in DOMAIN answers : answers[i] # "none"}
<1>1. ending \in SUBSET Nat /\ given \in SUBSET Nat
  OBVIOUS
<1>2. CASE ending # {}
  <2>1. Min(ending) \in ending
    BY <1>1, <1>2, MinOfPositions
  <2>2. MODULE_CALL(resp, answers) = answers[Min(ending)]
    BY <1>2 DEF MODULE_CALL
  <2> QED BY <2>1, <2>2
<1>3. CASE ending = {} /\ given # {}
  <2>1. Min(given) \in given
    BY <1>1, <1>3, MinOfPositions
  <2>2. MODULE_CALL(resp, answers) \in {resp, answers[Min(given)]}
    BY <1>3 DEF MODULE_CALL
  <2> QED BY <2>1, <2>2
<1>4. CASE ending = {} /\ given = {}
  BY <1>4 DEF MODULE_CALL
<1> QED BY <1>2, <1>3, <1>4

\* So is what handle_data_bytes makes of them.
LEMMA FirstErrorType ==
  ASSUME NEW answers \in Seq(Response)
  PROVE  FirstError(answers) \in Response
<1> DEFINE bad == {i \in DOMAIN answers : ~ response_ok(answers[i])}
<1>1. bad \in SUBSET Nat
  OBVIOUS
<1>2. CASE bad # {}
  <2>1. Min(bad) \in bad
    BY <1>1, <1>2, MinOfPositions
  <2>2. FirstError(answers) = answers[Min(bad)]
    BY <1>2 DEF FirstError
  <2> QED BY <2>1, <2>2
<1>3. CASE bad = {}
  BY <1>3 DEF FirstError, Response
<1> QED BY <1>2, <1>3

(***************************************************************************)
(* A plugin that refuses is never outvoted: the chain accepts only if no   *)
(* plugin refuses, or a final answer comes before every refusal.           *)
(***************************************************************************)
THEOREM RefusalWins ==
  ASSUME NEW resp \in Response, response_ok(resp),
         NEW answers \in Seq(Response), NEW i \in DOMAIN answers,
         ~ response_ok(answers[i]),
         \A j \in 1 .. i - 1 : answers[j] # "final"
  PROVE  ~ response_ok(MODULE_CALL(resp, answers))
<1> DEFINE ending == {k \in DOMAIN answers : Ends(answers[k])}
<1>1. ending \in SUBSET Nat /\ i \in ending
  BY DEF Ends
<1>2. Min(ending) \in ending /\ Min(ending) <= i
  BY <1>1, MinOfPositions
<1>3. ~ response_ok(answers[Min(ending)])
  <2>1. CASE Min(ending) = i
    BY <2>1
  <2>2. CASE Min(ending) # i
    <3>1. Min(ending) \in 1 .. i - 1
      BY <1>2, <2>2
    <3> QED BY <1>2, <3>1 DEF Ends
  <2> QED BY <2>1, <2>2
<1>4. MODULE_CALL(resp, answers) = answers[Min(ending)]
  BY <1>1 DEF MODULE_CALL
<1> QED BY <1>3, <1>4

=============================================================================
