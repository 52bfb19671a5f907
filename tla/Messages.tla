------------------------------- MODULE Messages -------------------------------
(***************************************************************************)
(* The dialogue of one session as the client sees it, which the properties *)
(* of every protocol and backend are about, and the container's own state. *)
(***************************************************************************)
EXTENDS Responses

CONSTANTS
  Address,     \* the mail addresses clients send
  MaxMessages  \* messages of a session (a bound; the code has none)

Number == 1 .. MaxMessages

(***************************************************************************)
(* An offer is what the client was told is accepted: a sender, <<>> if     *)
(* there is none, and recipients.                                          *)
(***************************************************************************)
NoOffer == [from |-> <<>>, to |-> <<>>]
Offer   == [from : {<<>>} \cup {<<a>> : a \in Address}, to : Seq(Address)]

(***************************************************************************)
(* The n-th message: its offer, the blocks received, and the verdict:      *)
(* "open", "ack" or "nak" as answered, "cut" when the session ended before *)
(* the whole message came, "unknown" when it ended after.                  *)
(***************************************************************************)
Verdict   == {"none", "open", "ack", "nak", "cut", "unknown"}
Mail      == [offer : Offer, blocks : Nat, verdict : Verdict]
NoMail    == [offer |-> NoOffer, blocks |-> 0, verdict |-> "none"]

\* The container's state (see Handlers); data_response only ever holds an error.
Session == [need : BOOLEAN, fd : BOOLEAN, file : Nat, dresp : {"none", "temp", "perm"},
            n : 0 .. MaxMessages]

NewSession(need) == [need |-> need, fd |-> FALSE, file |-> 0, dresp |-> "none", n |-> 0]

=============================================================================
