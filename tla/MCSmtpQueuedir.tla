----------------------------- MODULE MCSmtpQueuedir -----------------------------
(***************************************************************************)
(* Bounds for SmtpQueuedir: plugins accept, have no opinion, or refuse.    *)
(***************************************************************************)
EXTENDS SmtpQueuedir

MCChains == {<<"none">>, <<"ok">>, <<"perm">>}

=============================================================================
