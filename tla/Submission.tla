------------------------------ MODULE Submission ------------------------------
(***************************************************************************)
(* What every protocol over every backend promises of the messages of a    *)
(* session: the client is told that a message is accepted only when it is  *)
(* stored, what was told of a message is never taken back, and nothing is  *)
(* stored of a message from the moment it is refused, or the session that  *)
(* sends it ends in the middle of it.                                      *)
(*                                                                         *)
(* A refused message may all the same be stored: the one who empties the   *)
(* queue may have taken it before the refusal.                             *)
(***************************************************************************)
CONSTANT Message

VARIABLES
  told,   \* what the client knows of each message
  stored, \* the messages that are in the queue, or were taken from there
  kept    \* what is in the queue would survive, or has survived, a power failure

vars == <<told, stored, kept>>

Init ==
  /\ told = [k \in Message |-> "none"]
  /\ stored = {}
  /\ kept = TRUE

Tells(k, v) == told' = [told EXCEPT ![k] = v]

\* What is stored of message k is removed, unless it is out of reach.
MayDrop(k) == stored' \in {stored, stored \ {k}}

Submit(k) ==
  /\ told[k] = "none"
  /\ Tells(k, "open")
  /\ UNCHANGED <<stored, kept>>

\* It may be stored before the client hears of it, or when it does not listen any more.
Store(k) ==
  /\ told[k] \in {"open", "unknown"}
  /\ stored' = stored \cup {k}
  /\ UNCHANGED <<told, kept>>

Accept(k) ==
  /\ told[k] = "open" /\ k \in stored
  /\ Tells(k, "ack")
  /\ UNCHANGED <<stored, kept>>

Refuse(k) ==
  /\ told[k] \in {"none", "open"}
  /\ Tells(k, "nak")
  /\ MayDrop(k)
  /\ UNCHANGED kept

\* The session ends in the middle of message k, or before it is answered.
Cut(k) ==
  /\ told[k] = "open"
  /\ \/ Tells(k, "cut") /\ k \notin stored'
     \/ Tells(k, "unknown")

Lose(k) == Cut(k) /\ MayDrop(k) /\ UNCHANGED kept

\* Messages that were not accepted may be lost; others too where nothing is synced.
PowerFails ==
  /\ UNCHANGED told \/ \E k \in Message : Cut(k)
  /\ stored' \subseteq stored
  /\ kept' => kept /\ \A k \in Message : told[k] = "ack" => k \in stored'

Next ==
  \/ \E k \in Message : Submit(k) \/ Store(k) \/ Accept(k) \/ Refuse(k) \/ Lose(k)
  \/ PowerFails

Spec == Init /\ [][Next]_vars

=============================================================================
